---- MODULE Spec2Model ----
\* A model of the Brivo API client (src/app/brivo.py): the OAuth token state,
\* the authenticated call wrapper, the memoized discovery lookups, and the
\* create-or-update / suspend orchestration, run as cooperative coroutines
\* against a remote directory; and of the upload handler that feeds it
\* (src/app/blueprints/upload.py, src/app/processing.py).
\*
\* A coroutine is suspended exactly at its network I/O, its sleeps and its
\* joins.  One step of the model is one event of the event loop (a response
\* arriving, a sleep ending, a top-level call being made) followed by
\* everything the woken coroutines do until each is suspended again.
EXTENDS Integers, Sequences, FiniteSets, TLC

VARIABLES now, token, cache, users, lifetime, tasks, top, calls, catalog, upload,
          _aiohttp_session, session, handler

vars == <<now, token, cache, users, lifetime, tasks, top, calls, catalog, upload,
          _aiohttp_session, session, handler>>

-----------------------------------------------------------------------------
\* Bounds of the model

MaxTime == 3
MaxUsers == 3
MaxCalls == 2
MaxNames == 6
MaxRetries == 3
MaxCreds == 6
MaxLookups == 3
MaxRows == 103
MaxRequests == 3

\* Program constants
SafetyMargin == 5
BatchSize == 5
ErrorLimit == 100

-----------------------------------------------------------------------------
\* Value domains

None == "None"

UserIdPool == <<"u1", "u2", "u3", "u4", "u5">>
UserIds == {UserIdPool[i] : i \in 1..MaxUsers}

MemberIds == {"m1", "m2"}
FirstNames == {"Ann", "Bob"}
LastNames == {"Lee", "Kim"}

\* What the discovery listings of the remote platform return is the variable
\* catalog: its custom fields, its groups and its credentials, each in the
\* order the listing returns them.  The definitions below are its usual content.

\* The remote group catalogue, in the order the listing returns it
GroupCatalog == <<[id |-> "g1", name |-> "Staff"], [id |-> "g2", name |-> "Gym"]>>
GroupIdPool == <<"g1", "g2">>

\* Remote credentials: id, reference id (the card number), facility code
CredentialCatalog ==
    <<[id |-> "k1", reference_id |-> "c1", facility_code |-> "f1"],
      [id |-> "k2", reference_id |-> "c2", facility_code |-> "f1"],
      [id |-> "k3", reference_id |-> "c2", facility_code |-> "f1"]>>
CredIdPool == <<"k1", "k2", "k3", "k4", "k5", "k6", "k7", "k8">>

\* Remote custom fields, in the order the listing returns them
CustomFields == <<[id |-> "cf7", fieldName |-> "Badge"], [id |-> "cf11", fieldName |-> "Member ID"]>>

\* The lifetimes (expires_in, in seconds) the OAuth endpoint may be configured with
ExpiresInValues == {4, 7}

\* The tokens a token response may carry
AccessTokens == {"at1", "at2"}
RefreshTokens == {"rt1", "rt2"}
TokenResponses ==
    [access_token : AccessTokens, refresh_token : RefreshTokens, expires_in : ExpiresInValues]

\* str.lower() on the strings of the model
Lower(s) ==
    CASE s = "Staff" -> "staff"
      [] s = "STAFF" -> "staff"
      [] s = "Gym" -> "gym"
      [] s = "GYM" -> "gym"
      [] s = "POOL" -> "pool"
      [] s = "Member ID" -> "member id"
      [] s = "Badge" -> "badge"
      [] s = "MEMBER_NUMBER" -> "member_number"
      [] s = "MemberID" -> "memberid"
      [] s = "Member_Id" -> "member_id"
      [] s = "Member Number" -> "member number"
      [] s = "MemberNumber" -> "membernumber"
      [] s = "Member-Id" -> "member-id"
      [] s = "Pool" -> "pool"
      [] OTHER -> s

\* Python truthiness of an optional string
Truthy(v) == v # None /\ v # ""

SeqOf(pool, S) == SelectSeq(pool, LAMBDA e : e \in S)
Range(s) == {s[i] : i \in DOMAIN s}

Min(a, b) == IF a < b THEN a ELSE b

-----------------------------------------------------------------------------
\* Coroutines.  A task id is <<invocation, coroutine, index>>.

NoReq == [op |-> "", uid |-> "", arg |-> <<>>]
NoKey == <<"", "", "">>

\* pc: the await the coroutine is suspended at; ph: what it waits for there
\* ("refresh", "flight": a response; "shared": a lookup another coroutine has in
\* flight; "sleep"; "join": its children).  args: its arguments besides the user id.
Task(uid, args) ==
    [pc |-> "", ph |-> "", req |-> NoReq, key |-> NoKey, uid |-> uid, args |-> args,
     names |-> <<>>, res |-> <<>>, x |-> <<>>, xbound |-> FALSE, n |-> 0]

MainId(inv) == <<inv, "main", 0>>

Parent(id) ==
    CASE id[2] = "find_group_id_by_name" -> <<id[1], "_assign_user_to_groups", 0>>
      [] id[2] = "delete_credential" -> <<id[1], "remove_all_credentials_from_user", 0>>
      [] OTHER -> MainId(id[1])

\* The invocation the caller is awaiting, or the last one it awaited: its
\* arguments and its outcome.  For the claims it also keeps: whether the token
\* had expired at entry, the requests that were refused, how many users the
\* member-id lookup returned (matched, -1 before it returns), the user id
\* create_user holds in `user`, the user as the call left it (after), and, when
\* the call repeats a successful one with the same arguments (again), that
\* call's result (before) and the user as that call left it (was); and the
\* batches its batch loops have started, in order (batches), and the
\* credential ids list_all_user_credentials returned to it (listed); and, for
\* exchange_oauth_code_for_token and refresh_token, the token state at entry,
\* the token response processed and when, and the token data returned; and,
\* for a call() with a payload, its data and body arguments, the response it
\* processed and the status and text of the API error it raised; and, for
\* delete_user, the confirmation flag it was given; and, for a discovery
\* lookup awaited on its own, its cache key (the function and its arguments)
\* and, when the call before it was the same lookup and failed, its error.
Idle == [inv |-> 0, fn |-> "", status |-> "idle", result |-> "", error |-> "",
         first_name |-> "", last_name |-> "", member_id |-> "", group_names |-> <<>>,
         card_number |-> None, facility_id |-> None, suspend |-> FALSE,
         expired_at_entry |-> FALSE, refused |-> <<>>, matched |-> -1, user |-> "",
         after |-> <<>>, again |-> FALSE, before |-> <<>>, was |-> <<>>, batches |-> <<>>,
         listed |-> <<>>, token_at_entry |-> <<>>, response |-> <<>>, processed_at |-> 0,
         returned |-> <<>>, data |-> None, body |-> None, http_response |-> <<>>,
         raised |-> <<>>, are_you_sure |-> FALSE, key |-> NoKey, after_failure |-> ""]

\* The state as one record, so that a handler can be written as a function
World == [token |-> token, cache |-> cache, users |-> users, tasks |-> tasks,
          top |-> top, calls |-> calls, _aiohttp_session |-> _aiohttp_session]

Commit(w) ==
    /\ token' = w.token
    /\ cache' = w.cache
    /\ users' = w.users
    /\ tasks' = w.tasks
    /\ top' = w.top
    /\ calls' = w.calls
    /\ _aiohttp_session' = w._aiohttp_session

Spawn(w, id, t) == [w EXCEPT !.tasks = (id :> t) @@ @]
Drop(w, id) == [w EXCEPT !.tasks = [i \in DOMAIN @ \ {id} |-> @[i]]]

-----------------------------------------------------------------------------
\* The remote platform

NoUser == [exists |-> FALSE, firstName |-> "", lastName |-> "", memberId |-> "",
           groups |-> {}, creds |-> {}, suspended |-> FALSE]

FreeIds(u) == SelectSeq(UserIdPool, LAMBDA i : i \in UserIds /\ ~u[i].exists)

\* Whether the platform can answer the request with a success status
Accepts(u, req) ==
    CASE req.op = "POST /users" -> FreeIds(u) # <<>>
      [] req.uid # "" -> req.uid \in UserIds /\ u[req.uid].exists
      [] OTHER -> TRUE

\* What a successful request does to the directory
Effect(u, req) ==
    CASE req.op = "POST /users" ->
            [u EXCEPT ![Head(FreeIds(u))] =
                [NoUser EXCEPT !.exists = TRUE, !.firstName = req.arg[1], !.lastName = req.arg[2]]]
      [] req.op = "PUT custom-field" -> [u EXCEPT ![req.uid].memberId = req.arg[1]]
      [] req.op = "POST addGroups" -> [u EXCEPT ![req.uid].groups = @ \cup Range(req.arg)]
      [] req.op = "POST removeGroups" -> [u EXCEPT ![req.uid].groups = @ \ Range(req.arg)]
      [] req.op = "PUT credential" -> [u EXCEPT ![req.uid].creds = @ \cup Range(req.arg)]
      [] req.op = "DELETE credential" -> [u EXCEPT ![req.uid].creds = @ \ Range(req.arg)]
      [] req.op = "PUT suspended" -> [u EXCEPT ![req.uid].suspended = (req.arg[1] = "true")]
      [] req.op = "DELETE user" -> [u EXCEPT ![req.uid] = NoUser]
      [] OTHER -> u

\* The ids a successful request returns (of the users, groups or credentials it lists)
Reply(u, req) ==
    CASE req.op = "POST /users" -> <<Head(FreeIds(u))>>
      [] req.op = "GET users?filter" ->
            SelectSeq(UserIdPool, LAMBDA i : i \in UserIds /\ u[i].exists /\ u[i].memberId = req.arg[1])
      [] req.op = "GET user groups" -> SeqOf(GroupIdPool, u[req.uid].groups)
      [] req.op = "GET user credentials" -> SeqOf(CredIdPool, u[req.uid].creds)
      [] req.op = "GET credentials?filter" ->
            LET hit == SelectSeq(catalog.credentials,
                          LAMBDA c : c.reference_id = req.arg[2] /\ c.facility_code = req.arg[1])
            IN [i \in DOMAIN hit |-> hit[i].id]
      [] OTHER -> <<>>

-----------------------------------------------------------------------------
\* Token state and the authenticated call

TokenExpired_Inverted(w) == w.token.expires_after > now

\* (the lifetime stored without the safety margin)
__set_token_data_NoMargin(w, data) ==
    [w EXCEPT !.token = [access_token |-> data.access_token,
                         refresh_token |-> data.refresh_token,
                         expires_after |-> now + data.expires_in]]

__set_token_data(w, data) ==
    [w EXCEPT !.token = [access_token |-> data.access_token,
                         refresh_token |-> data.refresh_token,
                         expires_after |-> now + data.expires_in - SafetyMargin]]

TokenExpired(w) == w.token.expires_after < now

OAuthReq == [op |-> "POST /oauth/token", uid |-> "", arg |-> <<"refresh_token">>]

\* (the headers of the resource request built when call() is entered)
Authorization_AtEntry(w, req) ==
    IF req.op = OAuthReq.op THEN "Basic"
    ELSE IF w.top.token_at_entry # <<>> THEN w.top.token_at_entry[1].access_token
    ELSE w.token.access_token

\* _auth_request_headers, _api_request_headers: the Authorization header of a request
Authorization(w, req) == IF req.op = OAuthReq.op THEN "Basic" ELSE w.token.access_token

Entry(w, id, req) ==
    [co |-> id[2], op |-> req.op, uid |-> req.uid, arg |-> req.arg,
     authorization |-> Authorization(w, req)]

\* _http_request: the aiohttp session is created when there is none or when
\* it is closed; the request goes out and the coroutine waits for the response.
\* calls records, in order, the requests sent on behalf of the invocation the
\* caller is awaiting, until that invocation returns or raises.
_http_request(w, id, pc, ph, req, sent) ==
    [w EXCEPT !.tasks[id] = [@ EXCEPT !.pc = pc, !.ph = ph, !.req = req],
              !._aiohttp_session = "open",
              !.calls = IF id[1] = w.top.inv /\ w.top.status = "run"
                        THEN Append(@, Entry(w, id, sent)) ELSE @]

\* call(): up to its first suspension: the refresh request when the token has
\* expired, the resource request otherwise
call(w, id, pc, op, uid, arg) ==
    LET req == [op |-> op, uid |-> uid, arg |-> arg]
    IN IF TokenExpired(w)
       THEN _http_request(w, id, pc, "refresh", req, OAuthReq)
       ELSE _http_request(w, id, pc, "flight", req, req)

\* healthcheck(): the same check, then the plain request
healthcheck(w, id) ==
    LET req == [op |-> "GET administrators", uid |-> "", arg |-> <<>>]
    IN IF w.token.expires_after < now
       THEN _http_request(w, id, "healthcheck", "refresh", req, OAuthReq)
       ELSE _http_request(w, id, "healthcheck", "flight", req, req)

get_token_data(w) == w.token

\* HTTP responses as call() sees them: the status, and of the body whether it
\* is a JSON object (with which top-level keys), a bare JSON list, or not JSON
\* at all, and the content type it is labelled with
Statuses == {200, 204, 403, 500}
BodyKeys == {"message", "error", "error_description", "data"}
Bodies ==
    [kind : {"object"}, keys : SUBSET BodyKeys, content_type : {"application/json"}]
      \cup [kind : {"list"}, keys : {{}}, content_type : {"application/json"}]
      \cup [kind : {"not_json"}, keys : {{}}, content_type : {"application/json", "text/html"}]
Responses == [status : Statuses, body : Bodies]

\* response.json(): <<>> when it returns the parsed body, else the exception
\* it raises (aiohttp checks the content type before it parses)
json(response) ==
    IF response.body.content_type # "application/json" THEN <<"ContentTypeError">>
    ELSE IF response.body.kind = "not_json" THEN <<"JSONDecodeError">>
    ELSE <<>>

\* _process_error: <<>> when it returns, else what it raises: the exception
\* type, the status its text shows (0: none) and the parts of the body in it
_process_error(response) ==
    LET keys == response.body.keys
        description == IF "error_description" \in keys THEN <<"error_description">> ELSE <<>>
    IN IF ~(response.status >= 400) THEN <<>>
       ELSE IF json(response) # <<>>
       THEN <<[type |-> json(response)[1], status |-> 0, text |-> <<>>]>>
       ELSE IF "message" \in keys
       THEN <<[type |-> "BrivoApiError", status |-> response.status,
               text |-> <<"message">> \o description]>>
       ELSE IF "error" \in keys
       THEN <<[type |-> "BrivoApiError", status |-> response.status,
               text |-> <<"error">> \o description]>>
       ELSE <<[type |-> "BrivoApiError", status |-> response.status, text |-> <<"body">>]>>

\* exchange_oauth_code_for_token(code) and refresh_token(), up to the request
OAuthCall(w, id, pc, grant_type) ==
    _http_request(w, id, pc, "oauth", [op |-> OAuthReq.op, uid |-> "", arg |-> <<grant_type>>],
                  [op |-> OAuthReq.op, uid |-> "", arg |-> <<grant_type>>])

-----------------------------------------------------------------------------
\* Memoized discovery lookups (@memoize): a resolved value is returned without
\* a request, a lookup in flight is shared, a failed lookup is forgotten.

CfKey == <<"custom_field", "", "">>
GroupKey(name) == <<"group", name, "">>
CredKey(facility_id, ref_id) == <<"credential", facility_id, ref_id>>

Cached(w, key) == w.cache[key] \notin {"", "?"}

memoize(w, id, pc, key, op, arg) ==
    IF w.cache[key] = "?"
    THEN [w EXCEPT !.tasks[id] = [@ EXCEPT !.pc = pc, !.ph = "shared", !.key = key]]
    ELSE call([w EXCEPT !.cache[key] = "?", !.tasks[id].key = key], id, pc, op, "", arg)

expected_field_names ==
    {"member id", "memberid", "member_id", "member_number", "member number", "membernumber"}

\* The body of each memoized function after its listing came back:
\* <<value>> when it returns, <<>> when it raises

\* (the last recognized field instead of the first)
_find_memberid_custom_field_Last ==
    LET hit == SelectSeq(catalog.fields, LAMBDA f : Lower(f.fieldName) \in expected_field_names)
    IN IF hit = <<>> THEN <<>> ELSE <<hit[Len(hit)].id>>

\* (the names compared as they are listed)
_find_memberid_custom_field_CaseSensitive ==
    LET hit == SelectSeq(catalog.fields, LAMBDA f : f.fieldName \in expected_field_names)
    IN IF hit = <<>> THEN <<>> ELSE <<hit[1].id>>

_find_memberid_custom_field ==
    LET hit == SelectSeq(catalog.fields, LAMBDA f : Lower(f.fieldName) \in expected_field_names)
    IN IF hit = <<>> THEN <<>> ELSE <<hit[1].id>>

find_group_id_by_name(name) ==
    LET hit == SelectSeq(catalog.groups, LAMBDA g : Lower(g.name) = Lower(name))
    IN IF hit = <<>> THEN <<>> ELSE <<hit[1].id>>

\* (the first credential of a listing that holds several)
_find_credential_First(data) == IF Len(data) >= 1 THEN <<data[1]>> ELSE <<>>

_find_credential(data) == IF Len(data) = 1 THEN <<data[1]>> ELSE <<>>

Lookup(key, data) ==
    CASE key[1] = "custom_field" -> _find_memberid_custom_field
      [] key[1] = "group" -> find_group_id_by_name(key[2])
      [] OTHER -> _find_credential(data)

Waiters(w, key) == {i \in DOMAIN w.tasks : w.tasks[i].key = key}

-----------------------------------------------------------------------------
\* The coroutines, each from one suspension to the next

RECURSIVE Resume(_, _, _), Throw(_, _, _), Finish(_, _, _), Fail(_, _, _)
RECURSIVE NextGroupBatch(_, _), NextCredentialBatch(_, _)

\* A coroutine returns: its parent's join gets the value, or the invocation ends
Finish(w, id, val) ==
    LET w1 == Drop(w, id)
        p == Parent(id)
    IN IF id[2] = "main"
       THEN [w1 EXCEPT !.top.status = "done",
                       !.top.result = IF val = <<>> THEN "" ELSE val[1],
                       !.top.after = IF w.top.fn = "create_user" THEN <<w.users[val[1]]>> ELSE <<>>]
       ELSE IF p \in DOMAIN w1.tasks /\ w1.tasks[p].ph = "join"
       THEN LET t == w1.tasks[p]
                x1 == IF id[3] \in DOMAIN t.x THEN [t.x EXCEPT ![id[3]] = val[1]] ELSE t.x
                w2 == [w1 EXCEPT !.tasks[p] = [@ EXCEPT !.x = x1, !.n = @ - 1]]
            IN IF t.n = 1 THEN Resume(w2, p, x1) ELSE w2
       ELSE w1

\* (a join that collects exceptions instead of raising the first)
Fail_Collected(w, id, err) ==
    IF id[2] = "main"
    THEN [Drop(w, id) EXCEPT !.top.status = "failed", !.top.error = err]
    ELSE Finish(w, id, <<"">>)

\* (a join that cancels what it started when it fails)
Fail_Cancelling(w, id, err) ==
    LET w1 == Drop(w, id)
        p == Parent(id)
    IN IF id[2] = "main"
       THEN [w1 EXCEPT !.top.status = "failed", !.top.error = err,
                       !.tasks = [i \in {j \in DOMAIN @ : j[1] # id[1]} |-> @[i]]]
       ELSE IF p \in DOMAIN w1.tasks /\ w1.tasks[p].ph = "join"
       THEN Throw(w1, p, err)
       ELSE w1

\* A coroutine raises: the join it is part of fails at once; its siblings run on
Fail(w, id, err) ==
    LET w1 == Drop(w, id)
        p == Parent(id)
    IN IF id[2] = "main"
       THEN [w1 EXCEPT !.top.status = "failed", !.top.error = err]
       ELSE IF p \in DOMAIN w1.tasks /\ w1.tasks[p].ph = "join"
       THEN Throw(w1, p, err)
       ELSE w1

\* A batch loop of the awaited invocation starts a batch
StartBatch(w, id, batch) ==
    IF id[1] = w.top.inv /\ w.top.status = "run"
    THEN [w EXCEPT !.top.batches = Append(@, [co |-> id[2], items |-> batch])]
    ELSE w

\* gather() over the lookups of one batch of group names
RECURSIVE GatherGroups(_, _, _, _)
GatherGroups(w, id, batch, i) ==
    IF i > Len(batch) THEN w
    ELSE LET key == GroupKey(batch[i])
             kid == <<id[1], "find_group_id_by_name", i>>
         IN IF Cached(w, key)
            THEN GatherGroups([w EXCEPT !.tasks[id].x[i] = w.cache[key]], id, batch, i + 1)
            ELSE GatherGroups(
                    memoize(Spawn([w EXCEPT !.tasks[id].n = @ + 1], kid, Task("", <<>>)),
                            kid, "find_group_id_by_name", key, "GET groups", <<>>),
                    id, batch, i + 1)

\* _assign_user_to_groups: after a batch, res.extend(x) and the pause
AfterGroupBatch(w, id) ==
    [w EXCEPT !.tasks[id] = [@ EXCEPT !.res = @ \o w.tasks[id].x, !.xbound = TRUE,
                                      !.pc = "_assign_user_to_groups:sleep", !.ph = "sleep"]]

\* _assign_user_to_groups: the loop over the batches, then the request
NextGroupBatch(w, id) ==
    LET t == w.tasks[id]
        k == Min(BatchSize, Len(t.names))
        batch == SubSeq(t.names, 1, k)
    IN IF t.names = <<>>
       THEN IF ~t.xbound
            THEN Fail(w, id, "UnboundLocalError")
            ELSE call(w, id, "_assign_user_to_groups:call", "POST addGroups", t.uid, t.x)
       ELSE LET w1 == [StartBatch(w, id, batch) EXCEPT !.tasks[id] =
                          [@ EXCEPT !.names = SubSeq(t.names, k + 1, Len(t.names)),
                                    !.x = [i \in 1..k |-> ""], !.n = 0,
                                    !.pc = "_assign_user_to_groups:gather", !.ph = "join"]]
                w2 == GatherGroups(w1, id, batch, 1)
            IN IF id \in DOMAIN w2.tasks /\ w2.tasks[id].n = 0 THEN AfterGroupBatch(w2, id) ELSE w2

_assign_user_to_groups(w, id, user_id, group_names) ==
    NextGroupBatch(Spawn(w, id, [Task(user_id, <<>>) EXCEPT !.names = group_names]), id)

\* (every DELETE of a batch addressed to the batch's first credential)
RECURSIVE GatherDeletes_First(_, _, _, _)
GatherDeletes_First(w, id, batch, i) ==
    IF i > Len(batch) THEN w
    ELSE LET kid == <<id[1], "delete_credential", i>>
         IN GatherDeletes_First(
                call(Spawn(w, kid, Task(w.tasks[id].uid, <<>>)), kid, "delete_credential",
                     "DELETE credential", w.tasks[id].uid, <<batch[1]>>),
                id, batch, i + 1)

\* gather() over the DELETE calls of one batch
RECURSIVE GatherDeletes(_, _, _, _)
GatherDeletes(w, id, batch, i) ==
    IF i > Len(batch) THEN w
    ELSE LET kid == <<id[1], "delete_credential", i>>
         IN GatherDeletes(
                call(Spawn(w, kid, Task(w.tasks[id].uid, <<>>)), kid, "delete_credential",
                     "DELETE credential", w.tasks[id].uid, <<batch[i]>>),
                id, batch, i + 1)

\* (all the DELETE calls gathered at once)
NextCredentialBatch_Unbatched(w, id) ==
    LET t == w.tasks[id]
        k == Len(t.names)
    IN IF t.names = <<>>
       THEN Finish(w, id, <<"True">>)
       ELSE GatherDeletes(
                [StartBatch(w, id, SubSeq(t.names, 1, k)) EXCEPT !.tasks[id] =
                    [@ EXCEPT !.names = SubSeq(t.names, k + 1, Len(t.names)), !.n = k,
                              !.pc = "remove_all_credentials_from_user:gather", !.ph = "join"]],
                id, SubSeq(t.names, 1, k), 1)

\* remove_all_credentials_from_user: the loop over the batches
NextCredentialBatch(w, id) ==
    LET t == w.tasks[id]
        k == Min(BatchSize, Len(t.names))
    IN IF t.names = <<>>
       THEN Finish(w, id, <<"True">>)
       ELSE GatherDeletes(
                [StartBatch(w, id, SubSeq(t.names, 1, k)) EXCEPT !.tasks[id] =
                    [@ EXCEPT !.names = SubSeq(t.names, k + 1, Len(t.names)), !.n = k,
                              !.pc = "remove_all_credentials_from_user:gather", !.ph = "join"]],
                id, SubSeq(t.names, 1, k), 1)

remove_all_credentials_from_user(w, id, user_id) ==
    call(Spawn(w, id, Task(user_id, <<>>)), id, "list_all_user_credentials",
         "GET user credentials", user_id, <<>>)

remove_all_groups_from_user(w, id, user_id) ==
    call(Spawn(w, id, Task(user_id, <<>>)), id, "remove_all_groups_from_user:list",
         "GET user groups", user_id, <<>>)

\* _set_member_id_value, once the custom field id is known
PutMemberId(w, id) ==
    call(w, id, "_set_member_id_value:call", "PUT custom-field", w.tasks[id].uid, w.tasks[id].args)

_set_member_id_value(w, id, user_id, value) ==
    LET w1 == Spawn(w, id, Task(user_id, <<value>>))
    IN IF Cached(w1, CfKey)
       THEN PutMemberId(w1, id)
       ELSE memoize(w1, id, "_set_member_id_value:field", CfKey, "GET custom-fields", <<>>)

_assign_credential(w, id, credential_id) ==
    call(w, id, "_assign_credential", "PUT credential", w.tasks[id].uid, <<credential_id>>)

\* (the lookup made again although its value is cached)
assign_card_Uncached(w, id, user_id, facility_id, card_number) ==
    memoize(Spawn(w, id, Task(user_id, <<facility_id, card_number>>)), id, "assign_card:find",
            CredKey(facility_id, card_number), "GET credentials?filter",
            <<facility_id, card_number>>)

assign_card(w, id, user_id, facility_id, card_number) ==
    LET w1 == Spawn(w, id, Task(user_id, <<facility_id, card_number>>))
        key == CredKey(facility_id, card_number)
    IN IF Cached(w1, key)
       THEN _assign_credential(w1, id, w1.cache[key])
       ELSE memoize(w1, id, "assign_card:find", key, "GET credentials?filter",
                    <<facility_id, card_number>>)

\* find_user_by_member_id, once the custom field id is known
FindUserCall(w, id) ==
    call(w, id, "find_user_by_member_id:call", "GET users?filter", "", <<w.top.member_id>>)

find_user_by_member_id(w, id) ==
    IF Cached(w, CfKey)
    THEN FindUserCall(w, id)
    ELSE memoize(w, id, "find_user_by_member_id:field", CfKey, "GET custom-fields", <<>>)

\* create_user: the post-steps and their join
PostSteps(w, id, user_id) ==
    LET inv == id[1]
        card == Truthy(w.top.card_number)
        w1 == [w EXCEPT !.tasks[id] = [@ EXCEPT !.uid = user_id, !.pc = "create_user:post",
                                                !.ph = "join", !.n = IF card THEN 3 ELSE 2],
                        !.top.user = user_id]
        w2 == _set_member_id_value(w1, <<inv, "_set_member_id_value", 0>>, user_id, w.top.member_id)
        w3 == _assign_user_to_groups(w2, <<inv, "_assign_user_to_groups", 0>>, user_id,
                                     w.top.group_names)
    IN IF card
       THEN assign_card(w3, <<inv, "assign_card", 0>>, user_id, w.top.facility_id, w.top.card_number)
       ELSE w3

\* (the name test with `and` for `or`)
FoundUser_And(w, id, user_id) ==
    LET user == w.users[user_id]
    IN IF user.firstName # w.top.first_name /\ user.lastName # w.top.last_name
       THEN Fail([w EXCEPT !.top.user = user_id], id, "BrivoError: already exists")
       ELSE PostSteps(w, id, user_id)

\* (the cleanup started but not awaited)
FoundUser_NotAwaited(w, id, user_id) ==
    LET inv == id[1]
        w2 == remove_all_groups_from_user(w, <<inv, "remove_all_groups_from_user", 0>>, user_id)
    IN PostSteps(remove_all_credentials_from_user(
                     w2, <<inv, "remove_all_credentials_from_user", 0>>, user_id), id, user_id)

\* create_user: the found path, after the lookup returned one user
FoundUser(w, id, user_id) ==
    LET user == w.users[user_id]
        inv == id[1]
    IN IF user.firstName # w.top.first_name \/ user.lastName # w.top.last_name
       THEN Fail([w EXCEPT !.top.user = user_id], id, "BrivoError: already exists")
       ELSE LET w1 == [w EXCEPT !.tasks[id] = [@ EXCEPT !.uid = user_id, !.n = 2,
                                   !.pc = "create_user:cleanup", !.ph = "join"],
                               !.top.user = user_id]
                w2 == remove_all_groups_from_user(w1, <<inv, "remove_all_groups_from_user", 0>>, user_id)
            IN remove_all_credentials_from_user(
                   w2, <<inv, "remove_all_credentials_from_user", 0>>, user_id)

SuspendUser_Unguarded(w, id, user_id) ==
    call([w EXCEPT !.top.user = user_id], id, "toggle_member_suspend:call", "PUT suspended",
         user_id, <<IF w.top.suspend THEN "true" ELSE "false">>)

\* toggle_member_suspend, after the lookup returned one user
SuspendUser(w, id, user_id) ==
    LET user == w.users[user_id]
        first_name == w.top.first_name
        last_name == w.top.last_name
        w1 == [w EXCEPT !.top.user = user_id]
    IN IF (Truthy(first_name) \/ Truthy(last_name))
          /\ (user.firstName # first_name \/ user.lastName # last_name)
       THEN Fail(w1, id, "BrivoError: Refusing to suspend")
       ELSE call(w1, id, "toggle_member_suspend:call", "PUT suspended", user_id,
                 <<IF w.top.suspend THEN "true" ELSE "false">>)

\* (one request for each listed group)
RemoveListedGroups_First(w, id, group_ids) ==
    LET w1 == [w EXCEPT !.top.listed = IF w.top.fn = "remove_all_groups_from_user"
                                       THEN group_ids ELSE @]
    IN IF Len(group_ids) = 0 THEN Finish(w1, id, <<>>)
       ELSE call(w1, id, "remove_all_groups_from_user:call", "POST removeGroups",
                 w.tasks[id].uid, <<group_ids[1]>>)

\* remove_all_groups_from_user after its listing: nothing more when the user
\* has no group, else the one request that removes them
RemoveListedGroups(w, id, group_ids) ==
    LET w1 == [w EXCEPT !.top.listed = IF w.top.fn = "remove_all_groups_from_user"
                                       THEN group_ids ELSE @]
    IN IF Len(group_ids) = 0 THEN Finish(w1, id, <<>>)
       ELSE call(w1, id, "remove_all_groups_from_user:call", "POST removeGroups",
                 w.tasks[id].uid, group_ids)

\* The value `val` arrives at the await the coroutine is suspended at
Resume(w, id, val) ==
    LET t == w.tasks[id]
        w0 == [w EXCEPT !.tasks[id] = [@ EXCEPT !.ph = "", !.req = NoReq, !.key = NoKey],
                        !.top.matched = IF t.pc = "find_user_by_member_id:call" THEN Len(val) ELSE @]
    IN CASE t.pc = "find_user_by_member_id:field" -> FindUserCall(w0, id)
         [] t.pc = "find_user_by_member_id:call" ->
              IF Len(val) = 0 THEN Throw(w0, id, "BrivoUserNotFoundError")
              ELSE IF Len(val) > 1 THEN Throw(w0, id, "BrivoError: Multiple users")
              ELSE IF w.top.fn = "create_user" THEN FoundUser(w0, id, val[1])
              ELSE SuspendUser(w0, id, val[1])
         [] t.pc = "create_user:cleanup" -> PostSteps(w0, id, t.uid)
         [] t.pc = "create_user:create" -> PostSteps(w0, id, val[1])
         [] t.pc = "create_user:post" -> Finish(w0, id, <<t.uid>>)
         [] t.pc = "remove_all_groups_from_user:list" -> RemoveListedGroups(w0, id, val)
         [] t.pc = "list_all_user_credentials" ->
              NextCredentialBatch(
                  [w0 EXCEPT !.tasks[id].names = val,
                             !.top.listed = IF id[1] = w.top.inv /\ w.top.status = "run"
                                            THEN val ELSE @], id)
         [] t.pc = "remove_all_credentials_from_user:gather" ->
              [w0 EXCEPT !.tasks[id] = [@ EXCEPT !.pc = "remove_all_credentials_from_user:sleep",
                                                 !.ph = "sleep"]]
         [] t.pc = "remove_all_credentials_from_user:sleep" -> NextCredentialBatch(w0, id)
         [] t.pc = "_set_member_id_value:field" -> PutMemberId(w0, id)
         [] t.pc = "_assign_user_to_groups:gather" -> AfterGroupBatch(w0, id)
         [] t.pc = "_assign_user_to_groups:sleep" -> NextGroupBatch(w0, id)
         [] t.pc = "assign_card:find" -> _assign_credential(w0, id, val[1])
         [] OTHER -> Finish(w0, id, val)

\* (the create branch taken on any error of the lookup)
Throw_AnyLookupError(w, id, err) ==
    LET t == w.tasks[id]
    IN IF id[2] = "main" /\ w.top.fn = "create_user"
          /\ err \in {"BrivoUserNotFoundError", "BrivoError: Multiple users"}
          /\ t.pc \in {"find_user_by_member_id:field", "find_user_by_member_id:call",
                       "create_user:cleanup"}
       THEN call(w, id, "create_user:create", "POST /users", "",
                 <<w.top.first_name, w.top.last_name>>)
       ELSE Fail(w, id, err)

\* The exception `err` is raised at the await the coroutine is suspended at
Throw(w, id, err) ==
    LET t == w.tasks[id]
    IN IF id[2] = "main" /\ w.top.fn = "create_user" /\ err = "BrivoUserNotFoundError"
          /\ t.pc \in {"find_user_by_member_id:field", "find_user_by_member_id:call",
                       "create_user:cleanup"}
       THEN call(w, id, "create_user:create", "POST /users", "",
                 <<w.top.first_name, w.top.last_name>>)
       ELSE Fail(w, id, err)

\* A memoized lookup settles: r is <<value>> or <<>> (it raised err).  Everyone
\* awaiting it gets the outcome, the coroutine that made the request first.
RECURSIVE Settle(_, _, _, _)
Settle(w, ids, r, err) ==
    IF ids = {} THEN w
    ELSE LET own == {i \in ids : w.tasks[i].ph # "shared"}
             id == IF own # {} THEN CHOOSE i \in own : TRUE ELSE CHOOSE i \in ids : TRUE
             w1 == IF r # <<>> THEN Resume(w, id, r)
                   ELSE Throw([w EXCEPT !.tasks[id] = [@ EXCEPT !.ph = "", !.req = NoReq,
                                                                 !.key = NoKey]], id, err)
         IN Settle(w1, (ids \ {id}) \cap DOMAIN w1.tasks, r, err)

\* (a lookup that found nothing remembered like one that found something)
MemoReturn_FailureCached(w, key, data) ==
    LET r == Lookup(key, data)
    IN Settle([w EXCEPT !.cache[key] = IF r = <<>> THEN "nothing" ELSE r[1]], Waiters(w, key), r,
              "BrivoError: not found")

MemoReturn(w, key, data) ==
    LET r == Lookup(key, data)
    IN Settle([w EXCEPT !.cache[key] = IF r = <<>> THEN "" ELSE r[1]], Waiters(w, key), r,
              "BrivoError: not found")

\* call() raises (the refresh failed, or _process_error found an error status).
\* top.refused records the requests of the awaited invocation that were refused.
CallFailed(w, id, err) ==
    LET key == w.tasks[id].key
        t == w.tasks[id]
        w1 == IF id[1] = w.top.inv /\ w.top.status = "run"
              THEN [w EXCEPT !.top.refused =
                       Append(@, IF t.ph = "refresh" THEN OAuthReq.op ELSE t.req.op)]
              ELSE w
    IN IF key # NoKey
       THEN Settle([w1 EXCEPT !.cache[key] = ""], Waiters(w1, key), <<>>, err)
       ELSE Throw([w1 EXCEPT !.tasks[id] = [@ EXCEPT !.ph = "", !.req = NoReq]], id, err)

-----------------------------------------------------------------------------
\* Events

\* The OAuth endpoint answers a refresh_token() that call() or healthcheck() awaits
RefreshRespond(id) ==
    /\ id \in DOMAIN tasks
    /\ tasks[id].ph = "refresh"
    /\ \E ok \in BOOLEAN :
          LET t == tasks[id]
              data == [access_token |-> "at1", refresh_token |-> "rt1", expires_in |-> lifetime]
          IN IF ok
             THEN Commit(_http_request(__set_token_data(World, data), id, t.pc, "flight", t.req, t.req))
             ELSE Commit(CallFailed(World, id, "BrivoApiError"))
    /\ UNCHANGED <<now, lifetime, catalog, upload, session, handler>>

\* (the token state replaced before the status of the response is looked at)
OAuthProcess_SetFirst(w, id, ok, data) ==
    IF ~ok
    THEN CallFailed(__set_token_data(w, data), id, "BrivoApiError")
    ELSE LET w1 == __set_token_data(w, data)
         IN Finish([w1 EXCEPT !.top.response = <<data>>, !.top.processed_at = now,
                              !.top.returned = <<get_token_data(w1)>>], id, <<>>)

\* exchange_oauth_code_for_token and refresh_token after the response:
\* _process_error, __set_token_data, return get_token_data()
OAuthProcess(w, id, ok, data) ==
    IF ~ok
    THEN CallFailed(w, id, "BrivoApiError")
    ELSE LET w1 == __set_token_data(w, data)
         IN Finish([w1 EXCEPT !.top.response = <<data>>, !.top.processed_at = now,
                              !.top.returned = <<get_token_data(w1)>>], id, <<>>)

\* The OAuth endpoint answers an exchange_oauth_code_for_token or a
\* refresh_token the caller awaits
OAuthRespond(id) ==
    /\ id \in DOMAIN tasks
    /\ tasks[id].ph = "oauth"
    /\ \E ok \in BOOLEAN, data \in TokenResponses : Commit(OAuthProcess(World, id, ok, data))
    /\ UNCHANGED <<now, lifetime, catalog, upload, session, handler>>

\* A coroutine of the awaited invocation raises what _process_error or the
\* parsing of the response raised
Raise(w, id, e) ==
    Fail([w EXCEPT !.top.raised = <<[status |-> e.status, text |-> e.text]>>], id, e.type)

\* (the body parsed before the status is compared with 204)
ProcessResponse_ParseFirst(w, id, response) ==
    LET w1 == [w EXCEPT !.tasks[id] = [@ EXCEPT !.ph = "", !.req = NoReq],
                        !.top.http_response = <<response>>]
        body == response.body
    IN IF _process_error(response) # <<>> THEN Raise(w1, id, _process_error(response)[1])
       ELSE IF json(response) = <<"JSONDecodeError">>
       THEN Raise(w1, id, [type |-> "BrivoError: Invalid JSON response", status |-> 0, text |-> <<>>])
       ELSE IF json(response) # <<>>
       THEN Raise(w1, id, [type |-> json(response)[1], status |-> 0, text |-> <<>>])
       ELSE IF response.status = 204 THEN Finish(w1, id, <<"dict()">>)
       ELSE IF body.kind # "object"
       THEN Raise(w1, id, [type |-> "AttributeError", status |-> 0, text |-> <<>>])
       ELSE Finish(w1, id, <<IF "data" \in body.keys THEN "body.data" ELSE "body">>)

\* call() after the response: _process_error, the 204 case, the parsing of
\* the body and request_data.get("data", request_data)
ProcessResponse(w, id, response) ==
    LET w1 == [w EXCEPT !.tasks[id] = [@ EXCEPT !.ph = "", !.req = NoReq],
                        !.top.http_response = <<response>>]
        body == response.body
    IN IF _process_error(response) # <<>> THEN Raise(w1, id, _process_error(response)[1])
       ELSE IF response.status = 204 THEN Finish(w1, id, <<"dict()">>)
       ELSE IF json(response) = <<"JSONDecodeError">>
       THEN Raise(w1, id, [type |-> "BrivoError: Invalid JSON response", status |-> 0, text |-> <<>>])
       ELSE IF json(response) # <<>>
       THEN Raise(w1, id, [type |-> json(response)[1], status |-> 0, text |-> <<>>])
       ELSE IF body.kind # "object"
       THEN Raise(w1, id, [type |-> "AttributeError", status |-> 0, text |-> <<>>])
       ELSE Finish(w1, id, <<IF "data" \in body.keys THEN "body.data" ELSE "body">>)

\* The response to a call() made with a payload arrives, whatever it is
RawRespond(id) ==
    /\ id \in DOMAIN tasks
    /\ tasks[id].ph = "flight" /\ tasks[id].pc = "call:raw"
    /\ \E response \in Responses : Commit(ProcessResponse(World, id, response))
    /\ UNCHANGED <<now, lifetime, catalog, upload, session, handler>>

\* The platform handles a resource request and its response arrives
HttpRespond(id) ==
    /\ id \in DOMAIN tasks
    /\ tasks[id].ph = "flight" /\ tasks[id].pc # "call:raw"
    /\ \E ok \in BOOLEAN :
          LET t == tasks[id]
              data == Reply(users, t.req)
              w1 == [World EXCEPT !.users = Effect(users, t.req)]
          IN IF ok /\ Accepts(users, t.req)
             THEN IF t.key # NoKey
                  THEN Commit(MemoReturn(w1, t.key, data))
                  ELSE Commit(Resume(w1, id, data))
             ELSE Commit(CallFailed(World, id, "BrivoApiError"))
    /\ UNCHANGED <<now, lifetime, catalog, upload, session, handler>>

\* asyncio.sleep(0.1) between two batches ends
Wake(id) ==
    /\ id \in DOMAIN tasks
    /\ tasks[id].ph = "sleep"
    /\ Commit(Resume(World, id, <<>>))
    /\ UNCHANGED <<now, lifetime, catalog, upload, session, handler>>

Tick ==
    /\ now < MaxTime
    /\ now' = now + 1
    /\ UNCHANGED <<token, cache, users, lifetime, tasks, top, calls, catalog, upload,
                 _aiohttp_session, session, handler>>

\* A new top-level invocation: the caller awaits each before making the next
Enter(fn) ==
    [World EXCEPT !.top = [Idle EXCEPT !.inv = top.inv + 1, !.fn = fn, !.status = "run",
                                       !.expired_at_entry = token.expires_after < now],
                  !.calls = <<>>]

CanEnter == top.status # "run" /\ top.inv < MaxCalls

EnterMain(fn) == Spawn(Enter(fn), MainId(top.inv + 1), Task("", <<>>))

\* (the pairing test on truthiness instead of `is None`)
create_user_Truthiness(first_name, last_name, member_id, group_names, card_number, facility_id) ==
    /\ top.status # "run"
    /\ LET again == /\ top.fn = "create_user" /\ top.status = "done"
                    /\ top.first_name = first_name /\ top.last_name = last_name
                    /\ top.member_id = member_id /\ top.group_names = group_names
                    /\ top.card_number = card_number /\ top.facility_id = facility_id
           w == [EnterMain("create_user") EXCEPT
                    !.top.first_name = first_name, !.top.last_name = last_name,
                    !.top.member_id = member_id, !.top.group_names = group_names,
                    !.top.card_number = card_number, !.top.facility_id = facility_id,
                    !.top.again = again,
                    !.top.before = IF again THEN <<top.result>> ELSE <<>>,
                    !.top.was = IF again THEN top.after ELSE <<>>]
           id == MainId(top.inv + 1)
       IN IF Truthy(facility_id) # Truthy(card_number)
          THEN Commit(Fail(w, id, "ValueError"))
          ELSE Commit(find_user_by_member_id(w, id))
    /\ UNCHANGED <<now, lifetime, catalog, upload, session, handler>>

create_user(first_name, last_name, member_id, group_names, card_number, facility_id) ==
    /\ top.status # "run"
    /\ LET again == /\ top.fn = "create_user" /\ top.status = "done"
                    /\ top.first_name = first_name /\ top.last_name = last_name
                    /\ top.member_id = member_id /\ top.group_names = group_names
                    /\ top.card_number = card_number /\ top.facility_id = facility_id
           w == [EnterMain("create_user") EXCEPT
                    !.top.first_name = first_name, !.top.last_name = last_name,
                    !.top.member_id = member_id, !.top.group_names = group_names,
                    !.top.card_number = card_number, !.top.facility_id = facility_id,
                    !.top.again = again,
                    !.top.before = IF again THEN <<top.result>> ELSE <<>>,
                    !.top.was = IF again THEN top.after ELSE <<>>]
           id == MainId(top.inv + 1)
       IN IF (facility_id = None) # (card_number = None)
          THEN Commit(Fail(w, id, "ValueError"))
          ELSE Commit(find_user_by_member_id(w, id))
    /\ UNCHANGED <<now, lifetime, catalog, upload, session, handler>>

toggle_member_suspend(member_id, suspend, first_name, last_name) ==
    /\ CanEnter
    /\ LET w == [EnterMain("toggle_member_suspend") EXCEPT
                    !.top.first_name = first_name, !.top.last_name = last_name,
                    !.top.member_id = member_id, !.top.suspend = suspend]
       IN Commit(find_user_by_member_id(w, MainId(top.inv + 1)))
    /\ UNCHANGED <<now, lifetime, catalog, upload, session, handler>>

\* A bare call(url) by the caller
CallUrl ==
    /\ CanEnter
    /\ Commit(call(EnterMain("call"), MainId(top.inv + 1), "call", "GET groups", "", <<>>))
    /\ UNCHANGED <<now, lifetime, catalog, upload, session, handler>>

Healthcheck ==
    /\ CanEnter
    /\ Commit(healthcheck(EnterMain("healthcheck"), MainId(top.inv + 1)))
    /\ UNCHANGED <<now, lifetime, catalog, upload, session, handler>>

\* (the token looked at before the arguments)
call_with_RefreshFirst(w, id, data, body) ==
    IF TokenExpired(w)
    THEN call(w, id, "call:raw", "POST resource", "", <<IF Truthy(body) THEN body ELSE data>>)
    ELSE IF Truthy(body) /\ Truthy(data)
    THEN Fail(w, id, "ValueError")
    ELSE call(w, id, "call:raw", "POST resource", "", <<IF Truthy(body) THEN body ELSE data>>)

\* call(url, method, data, body): the argument check, then the request with
\* request_data = body if body else data
call_with(w, id, data, body) ==
    IF Truthy(body) /\ Truthy(data)
    THEN Fail(w, id, "ValueError")
    ELSE call(w, id, "call:raw", "POST resource", "", <<IF Truthy(body) THEN body ELSE data>>)

CallWith(data, body) ==
    /\ CanEnter
    /\ Commit(call_with([EnterMain("call") EXCEPT !.top.data = data, !.top.body = body,
                                                  !.top.token_at_entry = <<token>>],
                        MainId(top.inv + 1), data, body))
    /\ UNCHANGED <<now, lifetime, catalog, upload, session, handler>>

ExchangeOauthCodeForToken ==
    /\ CanEnter
    /\ Commit(OAuthCall([EnterMain("exchange_oauth_code_for_token") EXCEPT
                             !.top.token_at_entry = <<token>>],
                        MainId(top.inv + 1), "exchange_oauth_code_for_token", "authorization_code"))
    /\ UNCHANGED <<now, lifetime, catalog, upload, session, handler>>

RefreshToken ==
    /\ CanEnter
    /\ Commit(OAuthCall([EnterMain("refresh_token") EXCEPT !.top.token_at_entry = <<token>>],
                        MainId(top.inv + 1), "refresh_token", "refresh_token"))
    /\ UNCHANGED <<now, lifetime, catalog, upload, session, handler>>

\* _assign_user_to_groups awaited on its own
AssignUserToGroups(user_id, group_names) ==
    /\ CanEnter
    /\ LET id == MainId(top.inv + 1)
           w == [EnterMain("_assign_user_to_groups") EXCEPT
                    !.top.group_names = group_names,
                    !.tasks[id] = [@ EXCEPT !.pc = "await", !.ph = "join", !.n = 1, !.uid = user_id]]
       IN Commit(_assign_user_to_groups(w, <<top.inv + 1, "_assign_user_to_groups", 0>>,
                                        user_id, group_names))
    /\ UNCHANGED <<now, lifetime, catalog, upload, session, handler>>

\* remove_all_credentials_from_user awaited on its own
RemoveAllCredentials(user_id) ==
    /\ CanEnter
    /\ LET id == MainId(top.inv + 1)
           w == [EnterMain("remove_all_credentials_from_user") EXCEPT
                    !.top.user = user_id,
                    !.tasks[id] = [@ EXCEPT !.pc = "await", !.ph = "join", !.n = 1, !.uid = user_id]]
       IN Commit(remove_all_credentials_from_user(
                     w, <<top.inv + 1, "remove_all_credentials_from_user", 0>>, user_id))
    /\ UNCHANGED <<now, lifetime, catalog, upload, session, handler>>

\* assign_card awaited on its own
AssignCard(user_id, facility_id, card_number) ==
    /\ CanEnter
    /\ LET id == MainId(top.inv + 1)
           w == [EnterMain("assign_card") EXCEPT
                    !.top.user = user_id, !.top.facility_id = facility_id,
                    !.top.card_number = card_number,
                    !.tasks[id] = [@ EXCEPT !.pc = "await", !.ph = "join", !.n = 1, !.uid = user_id]]
       IN Commit(assign_card(w, <<top.inv + 1, "assign_card", 0>>, user_id, facility_id,
                             card_number))
    /\ UNCHANGED <<now, lifetime, catalog, upload, session, handler>>

\* remove_all_groups_from_user awaited on its own
RemoveAllGroups(user_id) ==
    /\ CanEnter
    /\ LET id == MainId(top.inv + 1)
           w == [EnterMain("remove_all_groups_from_user") EXCEPT
                    !.top.user = user_id,
                    !.tasks[id] = [@ EXCEPT !.pc = "await", !.ph = "join", !.n = 1, !.uid = user_id]]
       IN Commit(remove_all_groups_from_user(
                     w, <<top.inv + 1, "remove_all_groups_from_user", 0>>, user_id))
    /\ UNCHANGED <<now, lifetime, catalog, upload, session, handler>>

\* (the confirmation flag not looked at)
delete_user_Unconfirmed(w, id, user_id, are_you_sure) ==
    call(w, id, "delete_user", "DELETE user", user_id, <<>>)

\* delete_user(user_id, are_you_sure)
delete_user(w, id, user_id, are_you_sure) ==
    IF ~are_you_sure
    THEN Fail(w, id, "ValueError")
    ELSE call(w, id, "delete_user", "DELETE user", user_id, <<>>)

DeleteUser(user_id, are_you_sure) ==
    /\ CanEnter
    /\ Commit(delete_user([EnterMain("delete_user") EXCEPT !.top.user = user_id,
                                                           !.top.are_you_sure = are_you_sure],
                          MainId(top.inv + 1), user_id, are_you_sure))
    /\ UNCHANGED <<now, lifetime, catalog, upload, session, handler>>

\* A memoized discovery lookup awaited on its own: fn(arg...), whose listing
\* request is `op`
Discover(fn, key, op, arg) ==
    /\ top.status # "run" /\ top.inv < MaxLookups
    /\ LET id == MainId(top.inv + 1)
           w == [EnterMain(fn) EXCEPT
                    !.top.key = key,
                    !.top.after_failure = IF top.key = key /\ top.status = "failed"
                                          THEN top.error ELSE ""]
       IN IF Cached(w, key)
          THEN Commit(Finish(w, id, <<w.cache[key]>>))
          ELSE Commit(memoize(w, id, fn, key, op, arg))
    /\ UNCHANGED <<now, lifetime, catalog, upload, session, handler>>

FindMemberIdCustomField ==
    Discover("_find_memberid_custom_field", CfKey, "GET custom-fields", <<>>)

FindGroupIdByName(name) ==
    Discover("find_group_id_by_name", GroupKey(name), "GET groups", <<>>)

FindCredential(facility_id, ref_id) ==
    Discover("_find_credential", CredKey(facility_id, ref_id), "GET credentials?filter",
             <<facility_id, ref_id>>)

\* An administrator of the platform edits its custom fields, groups or
\* credentials between two calls of the client
CatalogChanges(c) ==
    /\ top.status # "run"
    /\ c # catalog
    /\ catalog' = c
    /\ UNCHANGED <<now, token, cache, users, lifetime, tasks, top, calls, upload,
                 _aiohttp_session, session, handler>>

-----------------------------------------------------------------------------
\* The upload handler (src/app/blueprints/upload.py) and process_csv
\* (src/app/processing.py).  The handler is suspended only while it awaits the
\* row function; one step is the request arriving, or a row function
\* finishing, followed by everything the handler does up to its next await.
\* What a row function does on the platform is taken from the row: each row
\* says how its call ends (as the mocked create_user of the tests does).

\* EXPECTED_CSV_HEADERS
EXPECTED_CSV_HEADERS ==
    [create |-> {"First", "Last", "Member ID", "Group", "Card Number", "Facility Code"},
     suspend |-> {"First", "Last", "Member ID", "Suspend"}]

\* `except BrivoError` catches the class and its subclasses
IsBrivoError(e) == e \in {"BrivoError", "BrivoApiError", "BrivoUserNotFoundError"}

\* The request being handled, or the last one handled.  header: <<the set of
\* column names of the file>>, or <<>> when the file has no header line (the
\* reader's fieldnames are None); rows: how the row
\* function ends on each row; record_count, errors: the locals of process_csv;
\* report: the rows written to the results file; called: the rows the row
\* function was called with, in order; entered: process_csv was called;
\* returned: what it returned; flashes, response: what the user is shown;
\* stored: the uploaded file is in the uploads directory; transport: the
\* aiohttp session of the client ("none" until its first request).
NoUpload ==
    [phase |-> "idle", csv_type |-> "", filename |-> "", header |-> <<>>, rows |-> <<>>,
     record_count |-> 0, errors |-> <<>>, report |-> <<>>, called |-> <<>>,
     entered |-> FALSE, returned |-> <<>>, flashes |-> <<>>, response |-> "",
     stored |-> FALSE, transport |-> "none", raised |-> ""]

\* validate_file: "" when the file passes, else the message flashed
validate_file(filename) ==
    IF filename = "" THEN "No selected file"
    ELSE IF filename \notin {"members.csv", "MEMBERS.CSV"} THEN "Invalid file format. Only CSV"
    ELSE ""

\* (the header compared with the expected set)
check_csv_header_Equal(header, typ) ==
    IF header = <<>> THEN [raises |-> "TypeError", valid |-> FALSE]
    ELSE IF typ \notin DOMAIN EXPECTED_CSV_HEADERS THEN [raises |-> "KeyError", valid |-> FALSE]
    ELSE [raises |-> "", valid |-> header[1] = EXPECTED_CSV_HEADERS[typ]]

\* check_csv_header: set(reader.fieldnames).difference(EXPECTED_CSV_HEADERS[typ])
check_csv_header(header, typ) ==
    IF header = <<>> THEN [raises |-> "TypeError", valid |-> FALSE]
    ELSE IF typ \notin DOMAIN EXPECTED_CSV_HEADERS THEN [raises |-> "KeyError", valid |-> FALSE]
    ELSE [raises |-> "", valid |-> header[1] \ EXPECTED_CSV_HEADERS[typ] = {}]

\* BrivoApiContext.__aexit__: brivo.close()
__aexit__(u) == [u EXCEPT !.transport = IF @ = "none" THEN "none" ELSE "closed"]

\* upload_file: `except Exception`, `finally`, and the report page
UploadFailed(u, e) ==
    [u EXCEPT !.phase = "ended", !.raised = e,
              !.flashes = Append(@, "Error during processing"),
              !.stored = FALSE, !.response = "report"]

\* upload_file after process_csv returned
UploadProcessed(u) ==
    [u EXCEPT !.phase = "ended",
              !.returned = <<[errors |-> u.errors, record_count |-> u.record_count]>>,
              !.flashes = Append(@, IF Len(u.errors) > 0 THEN "errors occurred during processing"
                                    ELSE "uploaded successfully"),
              !.stored = FALSE, !.response = "report"]

\* process_csv after its loop: the context is left, then
\* log_processing_time_if(True) divides by record_count
EndOfRows(u) ==
    LET u1 == __aexit__(u)
    IN IF u.record_count = 0 THEN UploadFailed(u1, "ZeroDivisionError")
       ELSE UploadProcessed(u1)

\* _create_user, _suspend_user: the columns read before the client is called
RowColumns(typ) == EXPECTED_CSV_HEADERS[typ]

\* process_csv: the loop from `for row in reader` to `await row_fn(row, brivo)`
NextRow(u) ==
    LET i == Len(u.called) + 1
    IN IF i > Len(u.rows) THEN EndOfRows(u)
       ELSE LET u1 == [u EXCEPT !.record_count = @ + 1, !.called = Append(@, i)]
            IN IF ~(RowColumns(u.csv_type) \subseteq u.header[1])
               THEN UploadFailed(__aexit__(u1), "KeyError")
               ELSE [u1 EXCEPT !.phase = "row", !.transport = "open"]

\* (no except clause: a Brivo error ends the processing like any exception)
RowDone_Unhandled(u, outcome) ==
    LET i == u.called[Len(u.called)]
    IN IF outcome = "returns"
       THEN NextRow([u EXCEPT !.report = Append(@, [row |-> i, Error |-> "Success"])])
       ELSE UploadFailed(__aexit__(u), outcome)

\* (an exception that leaves process_csv without leaving the client's context)
RowDone_NoContext(u, outcome) ==
    LET i == u.called[Len(u.called)]
    IN IF outcome = "returns"
       THEN NextRow([u EXCEPT !.report = Append(@, [row |-> i, Error |-> "Success"])])
       ELSE IF IsBrivoError(outcome)
       THEN LET u1 == [u EXCEPT !.errors = Append(@, [row |-> i, error |-> outcome]),
                                !.report = Append(@, [row |-> i, Error |-> outcome])]
            IN IF Len(u1.errors) > ErrorLimit THEN EndOfRows(u1) ELSE NextRow(u1)
       ELSE UploadFailed(u, outcome)

\* (the loop without `if len(errors) > 100: break`)
RowDone_NoLimit(u, outcome) ==
    LET i == u.called[Len(u.called)]
    IN IF outcome = "returns"
       THEN NextRow([u EXCEPT !.report = Append(@, [row |-> i, Error |-> "Success"])])
       ELSE IF IsBrivoError(outcome)
       THEN NextRow([u EXCEPT !.errors = Append(@, [row |-> i, error |-> outcome]),
                              !.report = Append(@, [row |-> i, Error |-> outcome])])
       ELSE UploadFailed(__aexit__(u), outcome)

\* process_csv: the row function returned or raised: the except clause, the
\* report row, the error limit, and on to the next row
RowDone(u, outcome) ==
    LET i == u.called[Len(u.called)]
    IN IF outcome = "returns"
       THEN NextRow([u EXCEPT !.report = Append(@, [row |-> i, Error |-> "Success"])])
       ELSE IF IsBrivoError(outcome)
       THEN LET u1 == [u EXCEPT !.errors = Append(@, [row |-> i, error |-> outcome]),
                                !.report = Append(@, [row |-> i, Error |-> outcome])]
            IN IF Len(u1.errors) > ErrorLimit THEN EndOfRows(u1) ELSE NextRow(u1)
       ELSE UploadFailed(__aexit__(u), outcome)

\* upload_file, from the request to the first row function awaited
upload_file(csv_type, filename, header, rows) ==
    /\ upload.phase = "idle"
    /\ LET u == [upload EXCEPT !.csv_type = csv_type, !.filename = filename,
                               !.header = header, !.rows = rows]
           checked == check_csv_header(header, csv_type)
       IN IF validate_file(filename) # ""
          THEN upload' = [u EXCEPT !.phase = "ended", !.response = "redirect",
                                   !.flashes = <<validate_file(filename)>>]
          ELSE IF checked.raises # ""
          THEN upload' = UploadFailed(u, checked.raises)
          ELSE IF ~checked.valid
          THEN upload' = [u EXCEPT !.phase = "ended", !.response = "redirect",
                                   !.flashes = <<"Invalid file format. Column headers",
                                                 "Refusing to import current file">>]
          ELSE upload' = NextRow([u EXCEPT !.entered = TRUE, !.stored = TRUE])
    /\ UNCHANGED <<now, token, cache, users, lifetime, tasks, top, calls, catalog,
                 _aiohttp_session, session, handler>>

\* The row function the handler awaits ends as its row says
RowReturns ==
    /\ upload.phase = "row"
    /\ upload' = RowDone(upload, upload.rows[upload.called[Len(upload.called)]])
    /\ UNCHANGED <<now, token, cache, users, lifetime, tasks, top, calls, catalog,
                 _aiohttp_session, session, handler>>

-----------------------------------------------------------------------------
\* The web front-end (src/app/webapp.py, src/app/blueprints/auth.py,
\* src/app/util.py): the Flask session, the login gate, and the
\* BrivoApiContext block each handler runs its client in.  A request is
\* handled to its response before the next one arrives.  Inside the block the
\* handler awaits the client; what the client does there is the model above.

\* The Flask session.  username: None while the key is missing;
\* token_object: <<>> while the key is missing, else <<the token object>>
NoSession == [username |-> None, token_object |-> <<>>, _last_csv_results_file |-> FALSE]

\* The request being handled, or the last one handled.  phase: "idle" once
\* the response is returned, "entered" inside the BrivoApiContext block,
\* "closing" while __aexit__ awaits close(); ran: the body of the handler was
\* executed; exited: the handler ran a BrivoApiContext block and left it;
\* rows: the rows of the uploaded file; served: the requests received so far;
\* authenticated: the session held both keys when the request arrived.
NoRequest == [route |-> "", phase |-> "idle", ran |-> FALSE, response |-> "",
              exited |-> FALSE, rows |-> <<>>, served |-> 0, authenticated |-> FALSE]

Routes == {"/", "/upload", "/download_result", "/test_api", "/login", "/oauth_callback", "/logout"}

\* The handlers decorated with login_required or login_required_async
Protected == {"/", "/upload", "/download_result", "/test_api"}

\* (either key is enough)
user_is_authenticated_Or(s) == s.username # None \/ s.token_object # <<>>

user_is_authenticated(s) == s.username # None /\ s.token_object # <<>>

\* BrivoApi.__init__: the token state of a new client
BrivoApi(token_data) ==
    IF token_data # <<>> THEN token_data[1]
    ELSE [access_token |-> None, refresh_token |-> None, expires_after |-> now]

\* BrivoApiContext(): a new client, made from the session's token object
BrivoApiContext ==
    /\ token' = BrivoApi(session.token_object)
    /\ cache' = [k \in DOMAIN cache |-> ""]
    /\ tasks' = <<>>
    /\ top' = Idle
    /\ calls' = <<>>
    /\ _aiohttp_session' = "none"

\* The requests in flight on an aiohttp session that is closed end with a
\* connection error (whether the platform handled them is not followed)
RECURSIVE Disconnect(_)
Disconnect(w) ==
    LET flying == {id \in DOMAIN w.tasks : w.tasks[id].ph \in {"flight", "refresh", "oauth"}}
    IN IF flying = {} THEN w
       ELSE Disconnect(CallFailed(w, CHOOSE id \in flying : TRUE, "ClientConnectionError"))

\* (close() that leaves the aiohttp session as it is)
close_Nothing(w) == w

\* BrivoApi.close()
close(w) ==
    IF w._aiohttp_session = "open" THEN Disconnect([w EXCEPT !._aiohttp_session = "closed"])
    ELSE w

\* The exceptions of the client that are BrivoError or a subclass of it
Caught(err) ==
    err \in {"BrivoApiError", "BrivoUserNotFoundError", "BrivoError: already exists",
             "BrivoError: not found", "BrivoError: Multiple users",
             "BrivoError: Refusing to suspend", "BrivoError: Invalid JSON response"}

\* A request arrives: the login gate, then the handler up to its first await.
\* /login runs get_link_to_start_oauth in its block, which awaits nothing.
Request(route, rows) ==
    /\ handler.phase = "idle" /\ handler.served < MaxRequests
    /\ LET h == [NoRequest EXCEPT !.route = route, !.served = handler.served + 1,
                                  !.authenticated = session.username # None
                                                    /\ session.token_object # <<>>]
           same == UNCHANGED <<token, cache, tasks, top, calls, _aiohttp_session>>
       IN IF route \in Protected /\ ~user_is_authenticated(session)
          THEN handler' = [h EXCEPT !.response = "redirect /login"]
               /\ UNCHANGED session /\ same
          ELSE CASE route = "/" ->
                      /\ handler' = [h EXCEPT !.ran = TRUE, !.response = "index.html"]
                      /\ UNCHANGED session /\ same
                 [] route = "/download_result" ->
                      /\ handler' = [h EXCEPT !.ran = TRUE,
                                       !.response = IF session._last_csv_results_file
                                                    THEN "send_file" ELSE "redirect /"]
                      /\ UNCHANGED session /\ same
                 [] route = "/logout" ->
                      /\ handler' = [h EXCEPT !.ran = TRUE, !.response = "redirect /login"]
                      /\ session' = NoSession /\ same
                 [] route = "/login" ->
                      /\ BrivoApiContext
                      /\ session' = [session EXCEPT
                                        !.token_object = <<BrivoApi(session.token_object)>>]
                      /\ handler' = [h EXCEPT !.ran = TRUE, !.exited = TRUE,
                                              !.response = "login.html"]
                 [] OTHER ->
                      /\ BrivoApiContext
                      /\ session' = [session EXCEPT !._last_csv_results_file =
                                                       @ \/ route = "/upload"]
                      /\ handler' = [h EXCEPT !.ran = TRUE, !.phase = "entered", !.rows = rows]
    /\ UNCHANGED <<now, users, lifetime, catalog, upload>>

\* oauth_callback: await brivo.exchange_oauth_code_for_token(code)
CallbackExchange ==
    /\ handler.phase = "entered" /\ handler.route = "/oauth_callback" /\ top.inv = 0
    /\ ExchangeOauthCodeForToken

\* test_api: await brivo.healthcheck()
TestApiHealthcheck ==
    /\ handler.phase = "entered" /\ handler.route = "/test_api" /\ top.inv = 0
    /\ Healthcheck

\* process_csv: the next row is given to _create_user, after a row that
\* ended with a return or with a BrivoError
UploadRow ==
    /\ handler.phase = "entered" /\ handler.route = "/upload"
    /\ top.inv < Len(handler.rows)
    /\ top.status = "failed" => Caught(top.error)
    /\ LET row == handler.rows[top.inv + 1]
       IN create_user(row.First, row.Last, row.MemberID, row.Group, row.CardNumber,
                      row.FacilityCode)

\* What the handler awaited in its block has returned or raised, and nothing
\* more is to be awaited in the block
BlockEnds ==
    /\ top.status # "run"
    /\ IF handler.route = "/upload"
       THEN top.inv = Len(handler.rows) \/ (top.status = "failed" /\ ~Caught(top.error))
       ELSE top.inv = 1

\* BrivoApiContext.__aexit__, up to `await self.brivo.close()`
LeaveBlock ==
    /\ handler.phase = "entered" /\ BlockEnds
    /\ Commit(close(World))
    /\ handler' = [handler EXCEPT !.phase = "closing"]
    /\ UNCHANGED <<now, lifetime, catalog, upload, session>>

\* (the token object stored on a normal exit only)
StoreToken_OnSuccess(s) ==
    IF top.status = "done" THEN [s EXCEPT !.token_object = <<get_token_data(World)>>] ELSE s

\* BrivoApiContext.__aexit__ after close(): the token object is put back
StoreToken(s) == [s EXCEPT !.token_object = <<get_token_data(World)>>]

\* (the session marked as logged in whatever the exchange did)
AfterBlock_Always(s) ==
    IF handler.route = "/oauth_callback"
    THEN [s EXCEPT !.username = "authorized_by_oauth",
                   !.token_object = IF top.returned # <<>> THEN top.returned ELSE @]
    ELSE s

\* The handler after its block: oauth_callback logs the session in when the
\* exchange returned; the other handlers leave the session as it is
AfterBlock(s) ==
    IF handler.route = "/oauth_callback" /\ top.status = "done"
    THEN [s EXCEPT !.username = "authorized_by_oauth", !.token_object = top.returned]
    ELSE s

\* close() returned: the rest of __aexit__, the rest of the handler, and the
\* response.  Nothing that the request started runs after it.
Respond ==
    /\ handler.phase = "closing"
    /\ session' = AfterBlock(StoreToken(session))
    /\ handler' = [handler EXCEPT
                      !.phase = "idle", !.exited = TRUE,
                      !.response = CASE handler.route = "/upload" -> "upload_report.html"
                                     [] handler.route = "/test_api" -> "redirect /"
                                     [] top.status = "done" -> "redirect /"
                                     [] OTHER -> "redirect /login"]
    /\ tasks' = <<>>
    /\ UNCHANGED <<now, token, cache, users, lifetime, top, calls, catalog, upload,
                   _aiohttp_session>>

-----------------------------------------------------------------------------
\* Inputs and initial states

GroupNames == {"Staff", "GYM"}
\* The rows create_user is called with
NameInputs == {<<"Ann", "Lee">>, <<"Bob", "Lee">>, <<"Ann", "Kim">>}
GroupLists == {<<>>, <<"Staff", "GYM">>}
CardInputs == {<<None, None>>, <<"c1", "f1">>, <<"c1", None>>}

\* The lists _assign_user_to_groups is called with: up to MaxNames names,
\* alternating between two of the group names
LongGroupLists ==
    {[i \in 1..k |-> IF i % 2 = 1 THEN a ELSE b] :
        k \in 0..MaxNames, a \in GroupNames, b \in GroupNames}

CacheKeys ==
    {CfKey} \cup {GroupKey(n) : n \in GroupNames \cup {"Pool"}}
            \cup {CredKey(f, c) : f \in {"f1", ""}, c \in {"c1", "c2", "c0"}}

\* A directory as an earlier run may have left it: no two users share a member id
Directories ==
    {[i \in UserIds |->
        IF i = "u1" /\ e
        THEN [exists |-> TRUE, firstName |-> "Ann", lastName |-> "Lee", memberId |-> "m1",
              groups |-> gc[1], creds |-> gc[2], suspended |-> FALSE]
        ELSE NoUser] :
     e \in BOOLEAN, gc \in {<<{}, {}>>, <<{"g1"}, {"k1", "k2"}>>}}

InitClient ==
    /\ now = 1
    /\ token \in {[access_token |-> "at0", refresh_token |-> "rt0", expires_after |-> e] :
                     e \in {0, 2}}
    /\ cache = [k \in CacheKeys |-> ""]
    /\ tasks = <<>>
    /\ top = Idle
    /\ calls = <<>>
    /\ catalog = [fields |-> CustomFields, groups |-> GroupCatalog,
                  credentials |-> CredentialCatalog]
    /\ upload = NoUpload
    /\ _aiohttp_session = "none"
    /\ session = NoSession
    /\ handler = NoRequest

Init == InitClient /\ users \in Directories /\ lifetime \in ExpiresInValues

\* The same, with a token lifetime above the safety margin
InitLong == InitClient /\ users \in Directories /\ lifetime = 7

RefreshResponds == \E id \in DOMAIN tasks : RefreshRespond(id)
HttpResponds == \E id \in DOMAIN tasks : HttpRespond(id)
Wakes == \E id \in DOMAIN tasks : Wake(id)
OAuthResponds == \E id \in DOMAIN tasks : OAuthRespond(id)
RawResponds == \E id \in DOMAIN tasks : RawRespond(id)

\* The payloads call() is given: none, an empty one, one with content
Payloads == {None, "", "payload"}
CallWithPayload == \E data \in Payloads, body \in Payloads : CallWith(data, body)

CreateUser ==
    /\ top.inv < MaxCalls
    /\ \E n \in NameInputs, g \in GroupLists, c \in CardInputs :
        create_user(n[1], n[2], "m1", g, c[1], c[2])

ToggleMemberSuspend ==
    \E m \in MemberIds, s \in BOOLEAN, f \in FirstNames \cup {None}, l \in LastNames \cup {None} :
        toggle_member_suspend(m, s, f, l)

AssignGroups == \E g \in LongGroupLists : AssignUserToGroups("u1", g)

\* The contents the platform's catalogue may have: up to two custom fields
\* out of four (two of them with a recognized name), the groups with and
\* without "Pool", the credentials with c2 held twice and c0 missing or with
\* c2 and c0 held once each
FieldPool ==
    {[id |-> "cf7", fieldName |-> "Badge"], [id |-> "cf11", fieldName |-> "Member ID"],
     [id |-> "cf12", fieldName |-> "MEMBER_NUMBER"], [id |-> "cf13", fieldName |-> "Member-Id"]}
FieldLists ==
    {<<>>} \cup {<<f>> : f \in FieldPool}
           \cup {p \in FieldPool \X FieldPool : p[1] # p[2]}
GroupCatalogs == {GroupCatalog, Append(GroupCatalog, [id |-> "g3", name |-> "POOL"])}
CredentialCatalogs ==
    {CredentialCatalog,
     <<CredentialCatalog[1], CredentialCatalog[2],
       [id |-> "k4", reference_id |-> "c0", facility_code |-> "f1"]>>}
Catalogs == [fields : FieldLists, groups : GroupCatalogs, credentials : CredentialCatalogs]

InitDiscovery ==
    /\ now = 1
    /\ token \in {[access_token |-> "at0", refresh_token |-> "rt0", expires_after |-> e] :
                     e \in {0, 2}}
    /\ cache = [k \in CacheKeys |-> ""]
    /\ tasks = <<>>
    /\ top = Idle
    /\ calls = <<>>
    /\ catalog \in Catalogs
    /\ upload = NoUpload
    /\ _aiohttp_session = "none"
    /\ session = NoSession
    /\ handler = NoRequest
    /\ users = [i \in UserIds |-> NoUser]
    /\ lifetime = 7

\* Field lists for the member-id discovery alone: up to two fields out of
\* eight, six named by one of the synonyms in some capitalization
AllFields ==
    FieldPool \cup
    {[id |-> "cf14", fieldName |-> "MemberID"], [id |-> "cf15", fieldName |-> "Member_Id"],
     [id |-> "cf16", fieldName |-> "Member Number"], [id |-> "cf17", fieldName |-> "membernumber"]}
AllFieldLists ==
    {<<>>} \cup {<<f>> : f \in AllFields}
           \cup {p \in AllFields \X AllFields : p[1] # p[2]}

InitFields ==
    /\ now = 1
    /\ token \in {[access_token |-> "at0", refresh_token |-> "rt0", expires_after |-> e] :
                     e \in {0, 2}}
    /\ cache = [k \in CacheKeys |-> ""]
    /\ tasks = <<>>
    /\ top = Idle
    /\ calls = <<>>
    /\ \E f \in AllFieldLists :
          catalog = [fields |-> f, groups |-> GroupCatalog, credentials |-> CredentialCatalog]
    /\ upload = NoUpload
    /\ _aiohttp_session = "none"
    /\ session = NoSession
    /\ handler = NoRequest
    /\ users = [i \in UserIds |-> NoUser]
    /\ lifetime = 7

FieldEdits == \E f \in AllFieldLists : CatalogChanges([catalog EXCEPT !.fields = f])

FindGroups == \E name \in {"Staff", "Pool"} : FindGroupIdByName(name)
FindCredentials == \E ref_id \in {"c1", "c2", "c0"} : FindCredential("f1", ref_id)
CatalogEdits == \E c \in Catalogs : CatalogChanges(c)

\* assign_card for a card that one credential, two credentials or no
\* credential of the facility carry
AssignCards == \E ref_id \in {"c1", "c2", "c0"} : AssignCard("u1", "f1", ref_id)

\* remove_all_groups_from_user on a user in no group, one group or two
RemoveGroups == RemoveAllGroups("u1")
InitUngroup ==
    /\ InitClient
    /\ lifetime \in ExpiresInValues
    /\ \E g \in SUBSET {"g1", "g2"} :
          users = [i \in UserIds |->
                     IF i = "u1"
                     THEN [exists |-> TRUE, firstName |-> "Ann", lastName |-> "Lee",
                           memberId |-> "m1", groups |-> g, creds |-> {}, suspended |-> FALSE]
                     ELSE NoUser]

\* The files uploaded.  Headers: none, the expected set, with a column more,
\* with a column less, other columns.  Rows: up to MaxRows, all ending the
\* same way but possibly one, which is the first, the second, the last but
\* one or the last; files of more than three rows are at least MaxRows - 3 long.
RowOutcomes == {"returns", "BrivoError", "BrivoApiError", "BrivoUserNotFoundError", "Exception"}
Headers(typ) ==
    {<<>>, <<EXPECTED_CSV_HEADERS[typ]>>, <<EXPECTED_CSV_HEADERS[typ] \cup {"Notes"}>>,
     <<EXPECTED_CSV_HEADERS[typ] \ {"Member ID"}>>,
     <<EXPECTED_CSV_HEADERS[typ] \ {"First", "Last"}>>, <<{"header1", "header2"}>>}
RowCounts == {n \in 0..MaxRows : n <= 3 \/ n >= MaxRows - 3}
Files ==
    {[i \in 1..n |-> IF i = j THEN other ELSE base] :
        n \in RowCounts, j \in {0, 1, 2, MaxRows - 1, MaxRows},
        base \in {"returns", "BrivoError"}, other \in RowOutcomes}
UploadFile ==
    \E typ \in {"create", "suspend"}, filename \in {"", "members.xls", "members.csv"} :
        \E header \in Headers(typ), rows \in Files :
            upload_file(typ, filename, header, rows)

\* delete_user with the flag left at its default (False) or given
DeleteUsers == \E u \in UserIds, sure \in BOOLEAN : DeleteUser(u, sure)

\* The requests the web front-end receives.  An uploaded file has one row,
\* without a card (the columns of a row are strings: an empty one is "", and
\* Group is split at its commas)
WebRows ==
    {[First |-> "Ann", Last |-> "Lee", MemberID |-> "m1", Group |-> <<"Staff">>,
      CardNumber |-> "", FacilityCode |-> ""]}
WebFiles == {<<r>> : r \in WebRows}
ReceiveRequest ==
    \E route \in Routes :
        \E rows \in IF route = "/upload" THEN WebFiles ELSE {<<>>} : Request(route, rows)


Next ==
    \/ RefreshResponds
    \/ HttpResponds
    \/ Wakes
    \/ Tick
    \/ CreateUser
    \/ ToggleMemberSuspend
    \/ CallUrl
    \/ Healthcheck
    \/ OAuthResponds
    \/ ExchangeOauthCodeForToken
    \/ RefreshToken
    \/ RawResponds
    \/ CallWithPayload
    \/ DeleteUsers
    \/ FindMemberIdCustomField
    \/ FindGroups
    \/ FindCredentials
    \/ CatalogEdits
    \/ AssignCards
    \/ RemoveGroups
    \/ UploadFile
    \/ RowReturns
    \/ ReceiveRequest
    \/ CallbackExchange
    \/ TestApiHealthcheck
    \/ UploadRow
    \/ LeaveBlock
    \/ Respond

Spec == Init /\ [][Next]_vars

\* call() and healthcheck() while time passes
NextToken == RefreshResponds \/ HttpResponds \/ Tick \/ CallUrl \/ Healthcheck
SpecToken == Init /\ [][NextToken]_vars

\* The token operations while time passes
NextOAuth == OAuthResponds \/ ExchangeOauthCodeForToken \/ RefreshToken \/ Tick
SpecOAuth == Init /\ [][NextOAuth]_vars

\* call() with a payload, against responses of every shape
NextCall == RefreshResponds \/ RawResponds \/ CallWithPayload
SpecCall == Init /\ [][NextCall]_vars

\* create_user, call after call
NextCreate == RefreshResponds \/ HttpResponds \/ Wakes \/ CreateUser
SpecCreate == InitLong /\ [][NextCreate]_vars

\* One row, with a user that exists, submitted again and again
RetryCreateUser ==
    /\ top.inv < MaxRetries
    /\ create_user("Ann", "Lee", "m1", <<"Staff">>, None, None)

InitRetry ==
    /\ InitClient
    /\ lifetime = 7
    /\ users \in {d \in Directories : d["u1"].groups # {}}

NextRetry == RefreshResponds \/ HttpResponds \/ Wakes \/ RetryCreateUser
SpecRetry == InitRetry /\ [][NextRetry]_vars

\* The batch loops: remove_all_credentials_from_user on a user that holds up
\* to MaxCreds credentials, and _assign_user_to_groups
RemoveCredentials == RemoveAllCredentials("u1")

InitBatches ==
    /\ InitClient
    /\ lifetime = 7
    /\ \E n \in 0..MaxCreds :
          users = [i \in UserIds |->
                     IF i = "u1"
                     THEN [exists |-> TRUE, firstName |-> "Ann", lastName |-> "Lee",
                           memberId |-> "m1", groups |-> {},
                           creds |-> {CredIdPool[j] : j \in 1..n}, suspended |-> FALSE]
                     ELSE NoUser]

NextBatches == RefreshResponds \/ HttpResponds \/ Wakes \/ RemoveCredentials \/ AssignGroups
SpecBatches == InitBatches /\ [][NextBatches]_vars

\* create_user with every pairing of a card number and a facility code
PairInputs == {None, "", "c1"} \X {None, "", "f1"}
CreateUserPaired ==
    /\ top.inv < MaxCalls
    /\ \E c \in PairInputs : create_user("Ann", "Lee", "m1", <<"Staff">>, c[1], c[2])

NextPairing == RefreshResponds \/ HttpResponds \/ Wakes \/ CreateUserPaired
SpecPairing == InitLong /\ [][NextPairing]_vars

\* toggle_member_suspend, call after call
NextSuspend == RefreshResponds \/ HttpResponds \/ ToggleMemberSuspend
SpecSuspend == Init /\ [][NextSuspend]_vars

\* _assign_user_to_groups over lists longer than one batch
NextGroups == RefreshResponds \/ HttpResponds \/ Wakes \/ AssignGroups
SpecGroups == Init /\ [][NextGroups]_vars

\* The three discovery lookups, call after call, on a catalogue that changes
NextDiscovery ==
    \/ RefreshResponds
    \/ HttpResponds
    \/ FindMemberIdCustomField
    \/ FindGroups
    \/ FindCredentials
    \/ CatalogEdits
SpecDiscovery == InitDiscovery /\ [][NextDiscovery]_vars

\* Member-id field discovery, call after call, on field lists that change
NextFields == RefreshResponds \/ HttpResponds \/ FindMemberIdCustomField \/ FieldEdits
SpecFields == InitFields /\ [][NextFields]_vars

\* create_user and toggle_member_suspend for a member id that no user, one
\* user or two users of the directory hold
MatchDirectories ==
    {[i \in UserIds |->
        IF i \in {UserIdPool[j] : j \in 1..k}
        THEN [exists |-> TRUE, firstName |-> "Ann", lastName |-> "Lee", memberId |-> "m1",
              groups |-> {"g1"}, creds |-> {}, suspended |-> FALSE]
        ELSE NoUser] : k \in 0..2}
InitMatches == InitClient /\ lifetime = 7 /\ users \in MatchDirectories
CreateMatched ==
    /\ top.inv < MaxCalls
    /\ create_user("Ann", "Lee", "m1", <<"Staff">>, None, None)
SuspendMatched == toggle_member_suspend("m1", TRUE, None, None)
NextMatches == RefreshResponds \/ HttpResponds \/ Wakes \/ CreateMatched \/ SuspendMatched
SpecMatches == InitMatches /\ [][NextMatches]_vars

\* assign_card, call after call
NextCards == RefreshResponds \/ HttpResponds \/ AssignCards
SpecCards == Init /\ [][NextCards]_vars

\* remove_all_groups_from_user, call after call, while time passes
NextUngroup == RefreshResponds \/ HttpResponds \/ Tick \/ RemoveGroups
SpecUngroup == InitUngroup /\ [][NextUngroup]_vars

\* One upload, from the request to the response
InitUpload ==
    /\ InitClient /\ token.expires_after = 2
    /\ users = [i \in UserIds |-> NoUser]
    /\ lifetime = 7
NextUpload == UploadFile \/ RowReturns
SpecUpload == InitUpload /\ [][NextUpload]_vars

\* delete_user, call after call, while time passes
NextDelete == RefreshResponds \/ HttpResponds \/ Tick \/ DeleteUsers
SpecDelete == Init /\ [][NextDelete]_vars

\* The web front-end, request after request, from an empty session
InitWeb ==
    /\ InitClient /\ token.expires_after = 2
    /\ users = [i \in UserIds |-> NoUser]
    /\ lifetime \in ExpiresInValues
\* What the handler awaited has ended: the handler goes on, to the next row
\* or out of its block, before anything else runs
HandlerRuns == handler.phase = "entered" /\ top.inv > 0 /\ top.status # "run"
NextWeb ==
    \/ ReceiveRequest
    \/ CallbackExchange
    \/ TestApiHealthcheck
    \/ UploadRow
    \/ LeaveBlock
    \/ Respond
    \/ ~HandlerRuns /\ OAuthResponds
    \/ ~HandlerRuns /\ RefreshResponds
    \/ ~HandlerRuns /\ HttpResponds
    \/ ~HandlerRuns /\ Wakes
SpecWeb == InitWeb /\ [][NextWeb]_vars

\* create_user for one row with two groups, on a client whose token has
\* expired whenever a call() looks at it (a lifetime below the safety margin)
InitFanOut == InitClient /\ lifetime = 4 /\ users \in {d \in Directories : d["u1"].groups = {}}
CreateFanOut ==
    /\ top.inv < MaxCalls
    /\ create_user("Ann", "Lee", "m1", <<"Staff", "GYM">>, None, None)
NextFanOut == RefreshResponds \/ HttpResponds \/ Wakes \/ CreateFanOut
SpecFanOut == InitFanOut /\ [][NextFanOut]_vars

-----------------------------------------------------------------------------
\* Claims

OpsOf(ops) == SelectSeq(calls, LAMBDA e : e.op \in ops)
Count(ops) == Len(OpsOf(ops))
Positions(ops) == {i \in DOMAIN calls : calls[i].op \in ops}
ResourceOps == {"GET groups", "GET administrators"}

\* C1: call() and healthcheck() refresh the token exactly once, before the
\* resource request, when expires_after is earlier than now at entry (the
\* resource request then carries the refreshed token), and never when
\* expires_after is later than now at entry.
C1_TokenFreshness ==
    top.fn \in {"call", "healthcheck"} =>
        /\ top.expired_at_entry =>
              /\ Count({"POST /oauth/token"}) = 1
              /\ calls[1].op = "POST /oauth/token"
              /\ \A i \in Positions(ResourceOps) : i > 1 /\ calls[i].authorization = "at1"
        /\ ~top.expired_at_entry => Count({"POST /oauth/token"}) = 0
        /\ Count(ResourceOps) <= 1

C1_Witness ==
    /\ top.fn = "healthcheck" /\ top.status = "done" /\ top.expired_at_entry
    /\ Count({"POST /oauth/token"}) = 1 /\ Count(ResourceOps) = 1


CreateOps == {"POST /users"}
CleanupOps == {"GET user groups", "POST removeGroups", "GET user credentials", "DELETE credential"}
PostOps == {"PUT custom-field", "GET groups", "POST addGroups", "GET credentials?filter",
            "PUT credential"}
LookupOps == {"POST /oauth/token", "GET custom-fields", "GET users?filter"}

InCreateUser == top.fn = "create_user" /\ top.status # "idle"
Cleaners == {"remove_all_groups_from_user", "remove_all_credentials_from_user", "delete_credential"}
NameDiffers ==
    top.user # "" /\ (users[top.user].firstName # top.first_name
                      \/ users[top.user].lastName # top.last_name)

\* C2: when the member-id lookup of create_user returns no user, exactly one
\* POST /users is sent, before every post-step request; every post-step
\* request that addresses a user addresses the created one; and create_user
\* fails only when a remote request did, and otherwise returns the created id
\* after one member-id write, one group assignment and, if a card was given,
\* one card assignment.
C2_NotFoundPath ==
    (InCreateUser /\ top.matched = 0) =>
        /\ Count(CreateOps) = 1
        /\ \A i \in Positions(CreateOps), j \in Positions(PostOps) : i < j
        /\ Positions(PostOps) # {} => top.user # "" /\ users[top.user].exists
        /\ \A j \in Positions(PostOps) : calls[j].uid \in {"", top.user}
        /\ top.status = "failed" => top.error = "BrivoApiError"
        /\ top.status = "done" =>
              /\ top.result = top.user
              /\ Count({"PUT custom-field"}) = 1
              /\ OpsOf({"PUT custom-field"})[1].arg = <<top.member_id>>
              /\ Count({"POST addGroups"}) = 1
              /\ Count({"PUT credential"}) = IF Truthy(top.card_number) THEN 1 ELSE 0

\* C3: when the one user the lookup returns has another first or last name,
\* create_user fails with "already exists" having sent nothing but the lookup.
C3_Conflict ==
    (InCreateUser /\ top.matched = 1 /\ NameDiffers) =>
        /\ top.status = "failed"
        /\ top.error = "BrivoError: already exists"
        /\ \A i \in DOMAIN calls : calls[i].op \in LookupOps
        /\ \A id \in DOMAIN tasks : id[1] # top.inv

C3_Witness ==
    /\ InCreateUser /\ top.matched = 1 /\ NameDiffers /\ top.status = "failed"
    /\ users[top.user].lastName = top.last_name

\* C4: when the lookup returns one user with the same name, no POST /users is
\* sent, every cleanup request precedes every post-step request, and no
\* cleanup coroutine is still running once a post-step request has been sent.
C4_FoundPath ==
    (InCreateUser /\ top.matched = 1 /\ ~NameDiffers) =>
        /\ Count(CreateOps) = 0
        /\ \A i \in Positions(CleanupOps), j \in Positions(PostOps) : i < j
        /\ Positions(PostOps) # {} =>
              \A id \in DOMAIN tasks : id[1] = top.inv => id[2] \notin Cleaners

C4_Witness ==
    /\ InCreateUser /\ top.matched = 1 /\ top.status = "done"
    /\ Count({"DELETE credential"}) = 2 /\ Count({"POST removeGroups"}) = 1
    /\ Count({"POST addGroups"}) = 1

\* C5: the POST addGroups request of _assign_user_to_groups is sent once and
\* carries the id of every input group name, in input order, whatever the
\* length of the list.
C5_AllGroupIds ==
    (top.fn = "_assign_user_to_groups" /\ Count({"POST addGroups"}) > 0) =>
        /\ Count({"POST addGroups"}) = 1
        /\ OpsOf({"POST addGroups"})[1].arg =
              [i \in 1..Len(top.group_names) |-> find_group_id_by_name(top.group_names[i])[1]]

\* C6: no two remote users carry the same member id.
C6_MemberIdUnique ==
    \A a, b \in UserIds :
        (a # b /\ users[a].exists /\ users[b].exists /\ users[a].memberId # "")
            => users[a].memberId # users[b].memberId


\* C7: when create_user repeats a successful call with the same arguments and
\* succeeds again, it sends no POST /users, returns the same user id, and
\* leaves the user as the first call left it.
C7_Idempotent ==
    (InCreateUser /\ top.again /\ top.status = "done") =>
        /\ Count(CreateOps) = 0
        /\ top.result = top.before[1]
        /\ top.after = top.was

AllOps == LookupOps \cup CreateOps \cup CleanupOps \cup PostOps

\* C8: create_user returns only if none of its requests was refused and none
\* is outstanding; when one is refused it fails with the API error, the
\* create_user coroutine is gone, and the only requests it ever sent are the
\* lookup, the create, the cleanup (never after a post-step) and the post-steps.
C8_FailureObservable ==
    InCreateUser =>
        /\ top.status = "done" =>
              /\ top.refused = <<>>
              /\ \A id \in DOMAIN tasks : id[1] # top.inv
        /\ top.refused # <<>> =>
              /\ top.status = "failed"
              /\ top.error = "BrivoApiError"
              /\ MainId(top.inv) \notin DOMAIN tasks
        /\ \A i \in DOMAIN calls : calls[i].op \in AllOps
        /\ \A i \in Positions(CleanupOps), j \in Positions(PostOps) : i < j
        /\ top.matched = 0 => Positions(CleanupOps) = {}

C8_Witness ==
    /\ InCreateUser /\ top.status = "failed" /\ top.refused = <<"POST addGroups">>
    /\ top.matched = 0 /\ users[top.user].memberId = top.member_id

InToggle == top.fn = "toggle_member_suspend" /\ top.status # "idle"
\* A name that was supplied differs from the name of the user found
SuppliedDiffers ==
    top.user # "" /\ \/ Truthy(top.first_name) /\ users[top.user].firstName # top.first_name
                     \/ Truthy(top.last_name) /\ users[top.user].lastName # top.last_name
BothEqual ==
    top.user # "" /\ users[top.user].firstName = top.first_name
                  /\ users[top.user].lastName = top.last_name

\* C9: toggle_member_suspend sends at most one PUT suspended; when the lookup
\* finds one user whose first and last name equal the supplied ones, the PUT
\* is sent once, to that user, before the call returns, and the call fails
\* only if a request is refused; when a supplied name
\* differs it fails with "Refusing to suspend", and when the lookup finds no
\* user it fails with BrivoUserNotFoundError, having sent no PUT.
C9_SuspendGuard ==
    InToggle =>
        /\ Count({"PUT suspended"}) <= 1
        /\ \A i \in Positions({"PUT suspended"}) :
              calls[i].uid = top.user /\ calls[i].arg = <<IF top.suspend THEN "true" ELSE "false">>
        /\ (top.matched = 1 /\ BothEqual) =>
              /\ top.status = "done" => Count({"PUT suspended"}) = 1
              /\ top.status = "failed" => top.error = "BrivoApiError"
        /\ (top.matched = 1 /\ SuppliedDiffers) =>
              /\ top.status = "failed"
              /\ top.error = "BrivoError: Refusing to suspend"
              /\ Count({"PUT suspended"}) = 0
        /\ (top.matched = 0 /\ top.status # "run") =>
              /\ top.status = "failed"
              /\ top.error = "BrivoUserNotFoundError"
              /\ Count({"PUT suspended"}) = 0

C9_Witness ==
    /\ InToggle /\ top.matched = 1 /\ BothEqual /\ top.status = "done"
    /\ Count({"PUT suspended"}) = 1 /\ users[top.user].suspended

\* C10: toggle_member_suspend refuses exactly when a supplied name differs
\* from the found user's; otherwise (in particular with one name supplied and
\* equal) the PUT suspended is sent before the call returns, and the call
\* fails only if a request is refused.
C10_SuppliedNamesOnly ==
    (InToggle /\ top.matched = 1) =>
        /\ SuppliedDiffers => top.error = "BrivoError: Refusing to suspend"
        /\ ~SuppliedDiffers =>
              /\ top.status = "done" => Count({"PUT suspended"}) = 1
              /\ top.status = "failed" => top.error = "BrivoApiError"

InRemoveCredentials == top.fn = "remove_all_credentials_from_user" /\ top.status # "idle"
Batches(n) == (n + BatchSize - 1) \div BatchSize

\* C11: remove_all_credentials_from_user sends one listing request; every
\* DELETE is addressed to the user and to one listed credential, no credential
\* twice, in batches of at most 5; and when it returns it has sent one DELETE
\* for each of the N listed credentials, in ceil(N/5) batches.
C11_BatchCleanup ==
    InRemoveCredentials =>
        /\ Count({"GET user credentials"}) <= 1
        /\ \A i \in Positions({"GET user credentials"}), j \in Positions({"DELETE credential"}) :
              i < j
        /\ \A i \in Positions({"DELETE credential"}) :
              /\ calls[i].uid = top.user
              /\ Len(calls[i].arg) = 1 /\ calls[i].arg[1] \in Range(top.listed)
              /\ \A j \in Positions({"DELETE credential"}) : calls[j].arg = calls[i].arg => i = j
        /\ \A b \in DOMAIN top.batches : Len(top.batches[b].items) \in 1..BatchSize
        /\ top.status = "done" =>
              /\ Count({"GET user credentials"}) = 1
              /\ [i \in 1..Count({"DELETE credential"}) |-> OpsOf({"DELETE credential"})[i].arg[1]]
                    = top.listed
              /\ Len(top.batches) = Batches(Len(top.listed))

C11_Witness ==
    /\ InRemoveCredentials /\ top.status = "done"
    /\ Len(top.listed) = 6 /\ Len(top.batches) = 2 /\ Count({"DELETE credential"}) = 6

\* The operations of the awaited invocation's batch loops that have not settled
BatchOperations ==
    {id \in DOMAIN tasks :
        id[1] = top.inv /\ id[2] \in {"delete_credential", "find_group_id_by_name"}}
BatchStarts ==
    top'.inv = top.inv /\ top.batches # <<>> /\ Len(top'.batches) > Len(top.batches)

\* C12: at most 5 operations of a batch loop are unsettled at any time, and a
\* batch after the first is started only when no operation of the loop is
\* unsettled.
C12_BatchSequencing ==
    /\ [](Cardinality(BatchOperations) <= BatchSize)
    /\ [][BatchStarts => BatchOperations = {}]_vars

C12_Witness ==
    /\ Len(top.batches) = 2 /\ Cardinality(BatchOperations) = 1
    /\ top.fn = "remove_all_credentials_from_user"

\* The coroutines suspended at a request or a sleep, and those of them the
\* step resumes or removes
Suspended == {id \in DOMAIN tasks : tasks[id].ph \in {"flight", "refresh", "sleep"}}
Touched == {id \in Suspended : id \notin DOMAIN tasks' \/ tasks'[id] # tasks[id]}
JoinFails ==
    /\ top.fn = "create_user" /\ top.status = "run"
    /\ top'.inv = top.inv /\ top'.status = "failed"
    /\ tasks[MainId(top.inv)].pc \in {"create_user:cleanup", "create_user:post"}
BranchErrors == {"BrivoApiError", "BrivoError: not found", "UnboundLocalError"}

\* C13: the step in which a join of create_user fails ends create_user with
\* the error the branch raised, and no step removes or resumes a suspended
\* coroutine other than the one whose response or wake-up it delivers: the
\* siblings of the failed branch stay as they were, requests in flight.
C13_NoCancellation ==
    [][/\ Cardinality(Touched) <= 1
       /\ JoinFails => top'.error \in BranchErrors]_vars

C13_Witness ==
    /\ top.fn = "create_user" /\ top.status = "failed"
    /\ top.refused = <<"GET user credentials">>
    /\ \E id \in DOMAIN tasks :
          /\ id = <<top.inv, "remove_all_groups_from_user", 0>>
          /\ tasks[id].ph = "flight" /\ tasks[id].req.op = "POST removeGroups"

InOAuth == top.fn \in {"exchange_oauth_code_for_token", "refresh_token"} /\ top.status # "idle"

\* C14: once exchange_oauth_code_for_token or refresh_token has processed the
\* response {a, r, e} at time t, the stored token is (a, r, t + e - 5) and the
\* token data returned is the stored token; until then the stored token is
\* whole as it was at entry, never a mix of old and new fields.
C14_TokenReplacement ==
    InOAuth =>
        /\ top.response = <<>> => token = top.token_at_entry[1] /\ top.status # "done"
        /\ top.response # <<>> =>
              /\ top.status = "done"
              /\ token = [access_token |-> top.response[1].access_token,
                          refresh_token |-> top.response[1].refresh_token,
                          expires_after |-> top.processed_at + top.response[1].expires_in - 5]
              /\ top.returned = <<token>>

C14_Witness ==
    /\ InOAuth /\ top.fn = "exchange_oauth_code_for_token" /\ top.status = "done"
    /\ top.processed_at = 3 /\ token = [access_token |-> "at2", refresh_token |-> "rt1",
                                          expires_after |-> 2]

\* C15: when the OAuth endpoint refuses the exchange or the refresh, the
\* operation fails with the API error and the stored token is what it was
\* at entry.
C15_TokenFailureUnchanged ==
    (InOAuth /\ top.refused # <<>>) =>
        /\ top.status = "failed"
        /\ top.error = "BrivoApiError"
        /\ token = top.token_at_entry[1]
        /\ top.returned = <<>>

C15_Witness ==
    /\ InOAuth /\ top.fn = "refresh_token" /\ top.status = "failed"
    /\ top.refused = <<"POST /oauth/token">> /\ token.access_token = "at2" /\ top.inv = 2

InCallWith == top.fn = "call" /\ top.http_response # <<>>

\* C16: whatever the body of a response with status >= 400, call() fails with
\* BrivoApiError and the text of the error shows the status.
C16_ErrorNormalization ==
    (InCallWith /\ top.http_response[1].status >= 400) =>
        /\ top.status = "failed"
        /\ top.error = "BrivoApiError"
        /\ top.raised[1].status = top.http_response[1].status

\* C17: for a response with a success status other than 204 whose body is
\* JSON, call() returns the data field of a body that is an object with one,
\* and the body itself otherwise, a bare list included.
C17_DataUnwrapping ==
    (InCallWith /\ top.http_response[1].status < 400 /\ top.http_response[1].status # 204
                /\ top.http_response[1].body.kind \in {"object", "list"}) =>
        /\ top.status = "done"
        /\ top.result = IF top.http_response[1].body.kind = "object"
                            /\ "data" \in top.http_response[1].body.keys
                         THEN "body.data" ELSE "body"

\* C18: a response with status 204 makes call() return an empty mapping,
\* whatever its body, and raise nothing.
C18_EmptyBody ==
    (InCallWith /\ top.http_response[1].status = 204) =>
        /\ top.status = "done"
        /\ top.result = "dict()"
        /\ top.error = "" /\ top.raised = <<>>

C18_Witness ==
    /\ InCallWith /\ top.http_response[1].status = 204 /\ top.status = "done"
    /\ top.http_response[1].body.kind = "not_json"
    /\ top.http_response[1].body.content_type = "text/html"

UsageError ==
    /\ top.status = "failed" /\ top.error = "ValueError"
    /\ calls = <<>>
    /\ token = top.token_at_entry[1]
    /\ \A id \in DOMAIN tasks : id[1] # top.inv

\* C19: call() given a data payload and a body, neither of them empty, fails
\* with ValueError having sent nothing: no token refresh, no request.
C19_BodyDataExclusive ==
    (top.fn = "call" /\ Truthy(top.data) /\ Truthy(top.body)) => UsageError

\* C19 as stated: call() given both a data payload and a body, empty or not,
\* fails with ValueError having sent nothing.
C19_GivenBoth ==
    (top.fn = "call" /\ top.data # None /\ top.body # None) => UsageError

C19_Witness ==
    /\ top.fn = "call" /\ Truthy(top.data) /\ Truthy(top.body)
    /\ top.expired_at_entry /\ UsageError

ExactlyOneGiven == (top.card_number = None) # (top.facility_id = None)

\* C20: create_user given exactly one of card_number and facility_id fails with
\* ValueError having sent no request; given both or neither, it raises no
\* ValueError.
C20_CardFacilityPairing ==
    InCreateUser =>
        /\ ExactlyOneGiven =>
              /\ top.status = "failed" /\ top.error = "ValueError"
              /\ calls = <<>>
              /\ \A id \in DOMAIN tasks : id[1] # top.inv
        /\ ~ExactlyOneGiven => top.error # "ValueError"

C20_Witness ==
    /\ InCreateUser /\ top.card_number = None /\ top.facility_id = "f1"
    /\ top.expired_at_entry /\ top.status = "failed" /\ top.error = "ValueError"

\* C21: delete_user called without are_you_sure set to true raises the usage
\* error (ValueError) and sends no request at all; called with it, it sends no
\* resource request other than DELETE for the user id it was given, at most
\* one, and exactly one when it returns.
InDeleteUser == top.fn = "delete_user"
DeleteRequests ==
    SelectSeq(calls, LAMBDA e : e.op = "DELETE user" /\ e.uid = top.user)

C21_DeleteConfirmation ==
    InDeleteUser =>
        /\ ~top.are_you_sure =>
              /\ top.status = "failed" /\ top.error = "ValueError"
              /\ calls = <<>>
        /\ top.are_you_sure =>
              /\ top.error # "ValueError"
              /\ Len(DeleteRequests) <= 1
              /\ \A i \in DOMAIN calls : calls[i].op \in {"DELETE user", OAuthReq.op}
              /\ Count({"DELETE user"}) = Len(DeleteRequests)
              /\ top.status = "done" => Len(DeleteRequests) = 1

\* a confirmed delete_user that returned, and before it a refused one
C21_Witness ==
    /\ InDeleteUser /\ top.are_you_sure /\ top.status = "done"
    /\ Len(DeleteRequests) = 1 /\ ~users[top.user].exists
    /\ top.inv = 2

C21_WitnessRefused ==
    InDeleteUser /\ ~top.are_you_sure /\ top.status = "failed" /\ calls = <<>>

\* C22: once one of the three memoized lookups has resolved a value for given
\* arguments, that value stays for the life of the client (every later call
\* with those arguments gets it), and no request is made for it again: no
\* coroutine has a lookup for those arguments in flight or awaits one, and
\* every discovery request belongs to a lookup that is not resolved.  The
\* credential id and the group ids create_user sends are the resolved ones.
DiscoveryOps == {"GET custom-fields", "GET groups", "GET credentials?filter"}
Resolved(key) == cache[key] \notin {"", "?"}
CacheHitsOnly ==
    /\ top.inv = 2 /\ top.status = "done" /\ top.fn = "create_user"
    /\ Count(DiscoveryOps) = 0

C22_DiscoveryCacheHit ==
    /\ [](\A id \in DOMAIN tasks :
            /\ tasks[id].key # NoKey => ~Resolved(tasks[id].key)
            /\ tasks[id].req.op \in DiscoveryOps => tasks[id].key # NoKey)
    /\ [](InCreateUser =>
            /\ \A e \in Range(OpsOf({"PUT credential"})) :
                  e.arg = <<cache[CredKey(top.facility_id, top.card_number)]>>
            /\ \A e \in Range(OpsOf({"POST addGroups"})) :
                  e.arg = [i \in DOMAIN top.group_names |-> cache[GroupKey(top.group_names[i])]])
    /\ [][\A key \in CacheKeys : Resolved(key) => cache'[key] = cache[key]]_vars

\* a second create_user, with groups and a card, that returned without any
\* discovery request
C22_Witness ==
    /\ CacheHitsOnly
    /\ top.group_names # <<>> /\ Truthy(top.card_number)
    /\ Count({"PUT credential"}) = 1 /\ Count({"POST addGroups"}) = 1
    /\ Count({"PUT custom-field"}) = 1

\* C23: a discovery lookup that failed (nothing found, or its request refused)
\* leaves nothing in the cache; the next call with the same arguments sends
\* the listing request again, exactly once, and returns what the listing
\* resolves to at that time.
InLookup == top.key # NoKey /\ top.status # "idle"
ListingOp ==
    CASE top.key[1] = "custom_field" -> "GET custom-fields"
      [] top.key[1] = "group" -> "GET groups"
      [] OTHER -> "GET credentials?filter"
ListingReq == [op |-> ListingOp, uid |-> "", arg |-> <<top.key[2], top.key[3]>>]
NotFound == "BrivoError: not found"

C23_FailureNotCached ==
    /\ [](InLookup /\ top.status = "failed" => cache[top.key] = "")
    /\ [](InLookup /\ top.after_failure # "" =>
            /\ calls # <<>>
            /\ Count({ListingOp}) <= 1
            /\ top.status = "done" => Count({ListingOp}) = 1 /\ top.result = cache[top.key])
    /\ [][InLookup /\ top.after_failure # "" /\ top.status = "run" /\ top'.status = "done" =>
            <<top'.result>> = Lookup(top.key, Reply(users, ListingReq))]_vars

\* member-id field discovery that found no field, called again after the field
\* was added, returns its id
C23_Witness ==
    /\ InLookup /\ top.after_failure = NotFound /\ top.status = "done"
    /\ top.fn = "_find_memberid_custom_field" /\ top.result = "cf11"
    /\ Count({"GET custom-fields"}) = 1

\* a group lookup whose request was refused, called again, returns the id
C23_WitnessRefused ==
    /\ InLookup /\ top.after_failure = "BrivoApiError" /\ top.status = "done"
    /\ top.fn = "find_group_id_by_name" /\ top.result = "g1"

\* C24: when _find_memberid_custom_field gets its listing, it returns the id
\* of the first listed field whose name in lower case is one of the six
\* synonyms, and it raises BrivoError exactly when no listed field has such a
\* name.
Recognized(f) ==
    Lower(f.fieldName) \in {"member id", "memberid", "member_id", "member_number",
                            "member number", "membernumber"}
InFieldDiscovery == top.fn = "_find_memberid_custom_field" /\ top.status = "run"
ListingHandled ==
    /\ \E id \in DOMAIN tasks : tasks[id].ph = "flight"
    /\ top'.status \in {"done", "failed"}
    /\ top'.error # "BrivoApiError"

C24_FieldDiscovery ==
    [][InFieldDiscovery /\ ListingHandled =>
          LET fields == catalog.fields
          IN IF \E i \in DOMAIN fields : Recognized(fields[i])
             THEN /\ top'.status = "done"
                  /\ \E i \in DOMAIN fields :
                        /\ Recognized(fields[i])
                        /\ top'.result = fields[i].id
                        /\ \A j \in 1..(i - 1) : ~Recognized(fields[j])
             ELSE top'.status = "failed" /\ top'.error = NotFound]_vars

\* discovery returned the first of two recognized fields, named in capitals
C24_Witness ==
    /\ top.fn = "_find_memberid_custom_field" /\ top.status = "done"
    /\ Count({"GET custom-fields"}) = 1
    /\ Len(catalog.fields) = 2
    /\ catalog.fields[1].fieldName = "MEMBER_NUMBER" /\ catalog.fields[2].fieldName = "Member ID"
    /\ top.result = "cf12"

\* discovery failed on a list without a recognized name
C24_WitnessNone ==
    /\ top.fn = "_find_memberid_custom_field" /\ top.status = "failed" /\ top.error = NotFound
    /\ Len(catalog.fields) = 2 /\ \A i \in DOMAIN catalog.fields : ~Recognized(catalog.fields[i])

\* C25: when the member-id lookup returns no user, find_user_by_member_id
\* raises BrivoUserNotFoundError, and when it returns two or more, a BrivoError
\* that is not BrivoUserNotFoundError; toggle_member_suspend fails with either.
\* create_user sends POST /users only after a lookup that returned no user,
\* and after a lookup that returned several users it fails with that
\* BrivoError having sent no create, cleanup or post-step request.
MultipleUsers == "BrivoError: Multiple users"

C25_LookupCardinality ==
    /\ InToggle /\ top.matched = 0 =>
          top.status = "failed" /\ top.error = "BrivoUserNotFoundError"
    /\ InToggle /\ top.matched >= 2 =>
          top.status = "failed" /\ top.error = MultipleUsers /\ Count({"PUT suspended"}) = 0
    /\ InCreateUser =>
          /\ Count(CreateOps) > 0 => top.matched = 0
          /\ top.matched = 0 => top.error # "BrivoUserNotFoundError"
          /\ top.matched = 0 /\ top.status = "done" => Count(CreateOps) = 1
          /\ top.matched >= 2 =>
                /\ top.status = "failed" /\ top.error = MultipleUsers
                /\ Count(CreateOps \cup CleanupOps \cup PostOps) = 0
                /\ \A id \in DOMAIN tasks : id[1] # top.inv

\* create_user failed on a member id that two users hold
C25_Witness ==
    /\ InCreateUser /\ top.matched = 2 /\ top.status = "failed" /\ top.error = MultipleUsers
    /\ Count({"GET users?filter"}) = 1

C25_WitnessNotFound ==
    InToggle /\ top.matched = 0 /\ top.error = "BrivoUserNotFoundError"

\* C26: assign_card sends PUT credential at most once, only when exactly one
\* credential of the catalogue has the facility code and reference id it was
\* given, and then for that credential's id and the given user; when none or
\* several have them, assign_card fails with a BrivoError and sends no PUT.
InAssignCard == top.fn = "assign_card" /\ top.status # "idle"
Carriers ==
    SelectSeq(catalog.credentials,
              LAMBDA c : c.facility_code = top.facility_id /\ c.reference_id = top.card_number)
Assignments == OpsOf({"PUT credential"})

C26_CredentialCardinality ==
    InAssignCard =>
        /\ Len(Assignments) <= 1
        /\ \A i \in DOMAIN Assignments :
              /\ Len(Carriers) = 1
              /\ Assignments[i].arg = <<Carriers[1].id>>
              /\ Assignments[i].uid = top.user
        /\ top.status = "done" => Len(Assignments) = 1
        /\ Len(Carriers) # 1 =>
              /\ Assignments = <<>>
              /\ top.status # "done"
              /\ top.status = "failed" => top.error \in {NotFound, "BrivoApiError"}
        /\ top.status = "failed" /\ top.refused = <<>> =>
              Len(Carriers) # 1 /\ top.error = NotFound

\* assign_card failed on a card that two credentials carry, after its listing
C26_Witness ==
    /\ InAssignCard /\ Len(Carriers) = 2 /\ top.status = "failed" /\ top.error = NotFound
    /\ Count({"GET credentials?filter"}) = 1 /\ Assignments = <<>>

C26_WitnessOne ==
    /\ InAssignCard /\ Len(Carriers) = 1 /\ top.status = "done"
    /\ users[top.user].creds = {"k1"}

C26_WitnessNone ==
    InAssignCard /\ Len(Carriers) = 0 /\ top.status = "failed" /\ top.error = NotFound

\* C27: remove_all_groups_from_user sends the listing of the user's groups
\* once, before anything else it sends for the user; when the listing holds
\* at least one group it then sends one POST removeGroups that names exactly
\* the listed ids, which leaves the user in no group; when the listing is
\* empty it sends no removal.
InRemoveGroups == top.fn = "remove_all_groups_from_user" /\ top.status # "idle"
Listings == Positions({"GET user groups"})
Removals == Positions({"POST removeGroups"})

C27_GroupCleanup ==
    InRemoveGroups =>
        /\ Cardinality(Listings) <= 1 /\ Cardinality(Removals) <= 1
        /\ \A i \in DOMAIN calls : calls[i].op \in {"GET user groups", "POST removeGroups", OAuthReq.op}
        /\ \A i \in Removals :
              /\ \E j \in Listings : j < i
              /\ calls[i].uid = top.user /\ calls[i].arg = top.listed /\ top.listed # <<>>
        /\ \A i \in Listings : calls[i].uid = top.user
        /\ top.status = "done" =>
              /\ Cardinality(Listings) = 1
              /\ Cardinality(Removals) = (IF top.listed = <<>> THEN 0 ELSE 1)
              /\ users[top.user].groups = {}

\* the cleanup of a user in two groups returned
C27_Witness ==
    /\ InRemoveGroups /\ top.status = "done" /\ Len(top.listed) = 2
    /\ Cardinality(Removals) = 1

C27_WitnessNone ==
    InRemoveGroups /\ top.status = "done" /\ top.listed = <<>> /\ top.inv = 1

\* C28: process_csv calls the row function once on each row it reaches, in
\* input order, and writes one report row, in the same order, for each row
\* whose function returned (Error: "Success") or raised a Brivo error (Error:
\* the error); a row whose function raised anything else gets no report row.
\* After a Brivo error on a row the next row is processed, unless that error
\* was the one that took the count of errors above ErrorLimit.
InProcessCsv == upload.entered
RowCalls == upload.called
Outcome(i) ==
    IF ~(RowColumns(upload.csv_type) \subseteq upload.header[1]) THEN "KeyError"
    ELSE upload.rows[i]
Handled(i) == Outcome(i) = "returns" \/ IsBrivoError(Outcome(i))
RowEnded(i) == i < Len(RowCalls) \/ upload.phase = "ended"
ErrorColumn(i) == IF Outcome(i) = "returns" THEN "Success" ELSE Outcome(i)
BrivoErrorsUpTo(i) == Cardinality({k \in 1..i : IsBrivoError(Outcome(k))})
CalledInOrder == RowCalls = [i \in 1..Len(RowCalls) |-> i]

C28_WitnessLimit ==
    /\ InProcessCsv /\ upload.phase = "ended"
    /\ Len(upload.errors) = ErrorLimit + 1 /\ Len(RowCalls) < Len(upload.rows)

\* C29: when the row function raises an exception that is not a Brivo error,
\* no later row is processed and no report row is written for that row,
\* process_csv returns nothing, the handler shows "Error during processing"
\* and no success message, removes the uploaded file, and the client's
\* transport has been closed.
Unhandled == {i \in 1..Len(RowCalls) : RowEnded(i) /\ ~Handled(i)}

Expected == <<EXPECTED_CSV_HEADERS[upload.csv_type]>>
Refused == ~upload.entered /\ RowCalls = <<>> /\ upload.transport = "none"

C30_HeaderGate ==
    upload.phase # "idle" =>
        /\ upload.entered => upload.header = Expected
        /\ upload.header # Expected => Refused

\* the same holds of every header that is not short of a column
ShortOfAColumn ==
    /\ upload.header # <<>>
    /\ upload.header[1] \subseteq EXPECTED_CSV_HEADERS[upload.csv_type]
    /\ upload.header[1] # EXPECTED_CSV_HEADERS[upload.csv_type]
C30_ExtraColumnsRefused == upload.phase # "idle" /\ ~ShortOfAColumn => C30_HeaderGate

\* The web front-end

\* The handler has left its BrivoApiContext block and returned its response
UnitEnded == handler.exited /\ handler.phase = "idle"

\* C31: once a handler has left its BrivoApiContext block, whether the block
\* ended normally or by an exception, the aiohttp session of the block's
\* client is closed: no aiohttp session the client created is open.
C31_TransportRelease == UnitEnded => _aiohttp_session # "open"

\* The same for the handlers whose block awaits one operation of the client
\* (login, oauth_callback, test_api): holds
C31_WithoutFanOut == UnitEnded /\ handler.route # "/upload" => _aiohttp_session # "open"

\* The step in which a handler leaves its BrivoApiContext block
BlockLeft == handler' # handler /\ handler'.exited /\ handler'.phase = "idle"
\* The step in which a handler enters its BrivoApiContext block
BlockEntered == handler' # handler /\ (handler'.phase = "entered" \/ handler'.route = "/login")

\* C32: when a handler leaves its BrivoApiContext block, normally or by an
\* exception, the session's token object is the token state of the block's
\* client; and the client of a block starts with the token object the session
\* holds, so with the token the block before it ended with.
C32_TokenPersistence ==
    [][/\ BlockLeft => session'.token_object = <<token'>>
       /\ BlockEntered /\ session.token_object # <<>> =>
             IF handler'.route = "/login" THEN token' = session.token_object[1]
                                               /\ session'.token_object = session.token_object
             ELSE token' = session.token_object[1]]_vars

\* (test_api refreshed the token in its block and the session holds the new one)
C32_Witness ==
    /\ UnitEnded /\ handler.route = "/test_api" /\ top.status = "done"
    /\ top.expired_at_entry /\ Count({"POST /oauth/token"}) = 1
    /\ session.token_object = <<token>> /\ token.access_token = "at1"

\* (the block of oauth_callback left by the exception of a refused exchange)
C32_WitnessException ==
    /\ UnitEnded /\ handler.route = "/oauth_callback" /\ top.status = "failed"
    /\ session.token_object = <<token>>

LoggedIn(s) == s.username # None /\ s.token_object # <<>>

\* C33: the body of a handler behind login_required or login_required_async
\* (index, upload, download_result, test_api) runs only when the session held
\* both a username and a token object when the request arrived; otherwise
\* the response is a redirect to /login and nothing of the handler ran.
C33_LoginGate ==
    handler.route \in Protected =>
        /\ handler.ran => handler.authenticated
        /\ ~handler.authenticated =>
              /\ ~handler.ran /\ handler.response = "redirect /login"
              /\ handler.phase = "idle" /\ ~handler.exited

\* (an upload handled for a logged-in session)
C33_Witness ==
    /\ handler.route = "/upload" /\ handler.authenticated /\ handler.ran
    /\ handler.response = "upload_report.html"

\* (a session that holds a token object but no username is sent to /login)
C33_WitnessRefused ==
    /\ handler.route = "/test_api" /\ ~handler.authenticated /\ session.token_object # <<>>
    /\ handler.response = "redirect /login" /\ ~handler.ran

\* The step in which oauth_callback returns its response
CallbackReturns == handler.route = "/oauth_callback" /\ handler.phase = "closing" /\ handler' # handler

\* C34: from an empty session, the session comes to hold both a username
\* and a token object only in an oauth_callback whose
\* exchange_oauth_code_for_token returned, and then the token object is what
\* the exchange returned; an oauth_callback whose exchange raised redirects to
\* /login and does not log the session in.
C34_AuthenticationOrigin ==
    [][/\ ~LoggedIn(session) /\ LoggedIn(session') =>
             /\ CallbackReturns
             /\ top.fn = "exchange_oauth_code_for_token" /\ top.status = "done"
             /\ session'.token_object = top.returned
             /\ handler'.response = "redirect /"
       /\ CallbackReturns /\ top.status = "failed" =>
             /\ handler'.response = "redirect /login"
             /\ session'.username = session.username
             /\ LoggedIn(session') => LoggedIn(session)]_vars

\* (a session logged in by a callback)
C34_Witness ==
    /\ handler.route = "/oauth_callback" /\ UnitEnded /\ top.status = "done"
    /\ LoggedIn(session) /\ session.token_object = top.returned
    /\ handler.response = "redirect /"

\* (a refused exchange: the session holds a token object and no username)
C34_WitnessRefused ==
    /\ handler.route = "/oauth_callback" /\ UnitEnded /\ top.status = "failed"
    /\ ~LoggedIn(session) /\ session.token_object # <<>>
    /\ handler.response = "redirect /login"

\* The coroutines of the awaited invocation that wait for the answer to a
\* refresh request of their call()
Refreshing == {id \in DOMAIN tasks : id[1] = top.inv /\ tasks[id].ph = "refresh"}

\* C35: the call()s that one create_user starts together on a client whose
\* token has expired send one refresh request between them: no two refresh
\* requests of the invocation are in flight at once.
C35_SingleRefresh == InCreateUser /\ top.status = "run" => Cardinality(Refreshing) <= 1

\* The groups and the credential the arguments of the awaited create_user name
NamedGroups == {find_group_id_by_name(top.group_names[i])[1] : i \in DOMAIN top.group_names}
NamedCredentials ==
    IF Truthy(top.card_number)
    THEN {Reply(users, [op |-> "GET credentials?filter", uid |-> "",
                        arg |-> <<top.facility_id, top.card_number>>])[1]}
    ELSE {}

\* C36: once create_user has returned a user id, that user is in exactly the
\* groups its arguments name and holds exactly the card they name, and stays
\* so until the next call, also when an earlier create_user on the same
\* client failed.
C36_PostSuccessState ==
    (InCreateUser /\ top.status = "done") =>
        /\ users[top.result].groups = NamedGroups
        /\ users[top.result].creds = NamedCredentials

\* C37: create_user with no group names (omitted or an empty list), whose
\* lookup found no user or the user of that name, and none of whose requests
\* was refused, returns the user id and sends no group assignment.
C37_EmptyGroupList ==
    (/\ InCreateUser /\ top.status # "run" /\ top.group_names = <<>>
     /\ (top.card_number = None) = (top.facility_id = None)
     /\ top.matched \in {0, 1} /\ top.refused = <<>> /\ top.error # "BrivoError: already exists") =>
        /\ top.status = "done"
        /\ top.result = top.user /\ top.user # ""
        /\ Count({"POST addGroups"}) = 0

\* The refresh request and the resource request of the awaited call()
RefreshRequests == Positions({OAuthReq.op})
ResourceRequests == Positions({"POST resource"})

\* C38: when call() sends a refresh request, the resource request it sends
\* afterwards carries the access token that refresh put in place, not the
\* one the client held when call() was entered (the two differ for the
\* token the client starts with); and when the refresh is
\* refused, call() fails with the error of the refresh and sends no resource
\* request.
C38_RefreshedTokenUsed ==
    (top.fn = "call" /\ top.token_at_entry # <<>> /\ RefreshRequests # {}) =>
        /\ \A i \in ResourceRequests :
              /\ \A j \in RefreshRequests : j < i
              /\ calls[i].authorization = token.access_token
              /\ top.token_at_entry[1].access_token = "at0" =>
                    calls[i].authorization # "at0"
        /\ OAuthReq.op \in Range(top.refused) =>
              /\ top.status = "failed" /\ top.error = "BrivoApiError"
              /\ ResourceRequests = {}
              /\ token = top.token_at_entry[1]

\* (a call() that refreshed and then sent its request with the new token)
C38_Witness ==
    /\ top.fn = "call" /\ top.status = "done" /\ top.token_at_entry # <<>>
    /\ Cardinality(RefreshRequests) = 1 /\ Cardinality(ResourceRequests) = 1
    /\ top.token_at_entry[1].access_token = "at0"
    /\ \A i \in ResourceRequests : calls[i].authorization = "at1"

\* (a call() whose refresh was refused)
C38_WitnessRefused ==
    /\ top.fn = "call" /\ top.status = "failed" /\ top.refused = <<OAuthReq.op>>
    /\ RefreshRequests # {} /\ ResourceRequests = {}

\* C39: process_csv on a file with a valid header and zero data rows ends
\* normally and returns an empty error list and a record count of 0.
EmptyInputFile ==
    /\ InProcessCsv /\ upload.rows = <<>>
    /\ upload.header = <<EXPECTED_CSV_HEADERS[upload.csv_type]>>

C39_EmptyInputFile ==
    EmptyInputFile /\ upload.phase = "ended" =>
        /\ upload.raised = ""
        /\ upload.returned = <<[errors |-> <<>>, record_count |-> 0]>>

\* the same file with one row that returns: process_csv returns
C39_OneRow ==
    /\ InProcessCsv /\ upload.rows = <<"returns">> /\ upload.phase = "ended"
    /\ upload.header = <<EXPECTED_CSV_HEADERS[upload.csv_type]>>
    => /\ upload.raised = ""
       /\ upload.returned = <<[errors |-> <<>>, record_count |-> 1]>>

\* C40: process_csv stops reading rows as soon as more than ErrorLimit rows
\* have failed with a Brivo error: the row function is never called on a row
\* that follows the error number ErrorLimit + 1, the error list never has more
\* than ErrorLimit + 1 entries, and the record count process_csv returns is
\* the number of rows the row function was called on.
C40_ErrorCap ==
    InProcessCsv =>
        /\ \A i \in 1..Len(RowCalls) : BrivoErrorsUpTo(RowCalls[i] - 1) <= ErrorLimit
        /\ Len(upload.errors) <= ErrorLimit + 1
        /\ upload.record_count = Len(RowCalls)
        /\ upload.returned # <<>> =>
              /\ Len(upload.returned[1].errors) <= ErrorLimit + 1
              /\ upload.returned[1].record_count = Len(RowCalls)
              /\ Len(upload.returned[1].errors) <= ErrorLimit => Len(RowCalls) = Len(upload.rows)

\* a file of MaxRows failing rows: process_csv returned after the row that
\* took the errors above the limit, the rows after it unread
C40_Witness ==
    /\ InProcessCsv /\ upload.phase = "ended" /\ upload.returned # <<>>
    /\ Len(upload.rows) = MaxRows
    /\ \A i \in 1..MaxRows : IsBrivoError(upload.rows[i])
    /\ Len(upload.returned[1].errors) = ErrorLimit + 1
    /\ upload.returned[1].record_count = ErrorLimit + 1
    /\ Len(RowCalls) = ErrorLimit + 1

\* ErrorLimit failing rows in a file: every row was read
C40_WitnessBelow ==
    /\ InProcessCsv /\ upload.phase = "ended" /\ upload.returned # <<>>
    /\ Len(upload.returned[1].errors) = ErrorLimit
    /\ upload.returned[1].record_count = Len(upload.rows)

====
